---- MODULE Spec2Model ----
(***************************************************************************)
(* A model of tate, a single-node columnar database: the Value/Type model, *)
(* the column store and Table, the Catalog, and the Executor that runs     *)
(* CREATE TABLE, DROP TABLE, INSERT and SELECT against them.               *)
(*                                                                         *)
(* Abstractions (all stated here, none silent):                            *)
(*  - a string is the sequence of its byte codes ("x" is <<120>>);         *)
(*  - a Float64 is an exact rational <<num, den>> in lowest terms with     *)
(*    den > 0 (the bounded inputs keep float arithmetic exact);            *)
(*  - a column file's data buffer is a sequence of slots, one per          *)
(*    appended value, instead of the bytes of the slots; the NULL bitmap   *)
(*    keeps its byte packing;                                              *)
(*  - the data directory is a map from table name to the directory's       *)
(*    files: the _meta.json sidecar and the col_<name>.dat files.          *)
(***************************************************************************)
EXTENDS Integers, Sequences, FiniteSets, TLC

(***************************************************************************)
(* Bounds of the model.                                                    *)
(***************************************************************************)
MaxRows == 1
MaxQueryRows == 3

(***************************************************************************)
(* storage.DataType                                                        *)
(***************************************************************************)
TypeNull == 0
TypeBool == 1
TypeInt64 == 2
TypeFloat64 == 3
TypeString == 4
TypeTimestamp == 5

ParseDataType(s) ==
    CASE s \in {"INT64", "INT", "INTEGER", "BIGINT"} -> TypeInt64
      [] s \in {"FLOAT64", "FLOAT", "DOUBLE", "REAL"} -> TypeFloat64
      [] s \in {"STRING", "VARCHAR", "TEXT"} -> TypeString
      [] s \in {"BOOL", "BOOLEAN"} -> TypeBool
      [] s \in {"TIMESTAMP", "DATETIME"} -> TypeTimestamp
      [] OTHER -> TypeNull

(***************************************************************************)
(* Rationals standing for float64 payloads.                                *)
(***************************************************************************)
Abs(n) == IF n < 0 THEN -n ELSE n

RECURSIVE Gcd(_, _)
Gcd(m, n) == IF n = 0 THEN m ELSE Gcd(n, m % n)

Rat(n, d) ==
    LET g == Gcd(Abs(n), Abs(d))
        sgn == IF d < 0 THEN -1 ELSE 1
    IN  <<(sgn * n) \div g, (sgn * d) \div g>>

RatOfInt(n) == <<n, 1>>
RatLess(x, y) == x[1] * y[2] < y[1] * x[2]
RatAdd(x, y) == Rat(x[1] * y[2] + y[1] * x[2], x[2] * y[2])
RatSub(x, y) == Rat(x[1] * y[2] - y[1] * x[2], x[2] * y[2])
RatMul(x, y) == Rat(x[1] * y[1], x[2] * y[2])
RatDiv(x, y) == Rat(x[1] * y[2], x[2] * y[1])
RatNeg(x) == <<-x[1], x[2]>>

(***************************************************************************)
(* Byte strings: Go's < on strings is the lexicographic order of bytes.    *)
(***************************************************************************)
RECURSIVE StrLess(_, _)
StrLess(a, b) ==
    IF b = <<>> THEN FALSE
    ELSE IF a = <<>> THEN TRUE
    ELSE IF Head(a) # Head(b) THEN Head(a) < Head(b)
    ELSE StrLess(Tail(a), Tail(b))

(***************************************************************************)
(* storage.Value: the type tag, the IsNull flag and the payload.  The      *)
(* payload has one field per type so that every Value has the same shape.  *)
(***************************************************************************)
MkValue(t, isNull, b, i, f, s) ==
    [type |-> t, isNull |-> isNull, b |-> b, i |-> i, f |-> f, s |-> s]

NewNullValue == MkValue(TypeNull, TRUE, FALSE, 0, <<0, 1>>, <<>>)
NewBoolValue(v) == MkValue(TypeBool, FALSE, v, 0, <<0, 1>>, <<>>)
NewInt64Value(v) == MkValue(TypeInt64, FALSE, FALSE, v, <<0, 1>>, <<>>)
NewFloat64Value(v) == MkValue(TypeFloat64, FALSE, FALSE, 0, v, <<>>)
NewStringValue(v) == MkValue(TypeString, FALSE, FALSE, 0, <<0, 1>>, v)

\* The accessors return <<payload, ok>>.
AsBool(v) == IF v.type # TypeBool \/ v.isNull THEN <<FALSE, FALSE>> ELSE <<v.b, TRUE>>
AsInt64(v) == IF v.type # TypeInt64 \/ v.isNull THEN <<0, FALSE>> ELSE <<v.i, TRUE>>
AsFloat64(v) == IF v.type # TypeFloat64 \/ v.isNull THEN <<<<0, 1>>, FALSE>> ELSE <<v.f, TRUE>>
AsString(v) == IF v.type # TypeString \/ v.isNull THEN <<<<>>, FALSE>> ELSE <<v.s, TRUE>>

Compare(v, other) ==
    IF v.isNull /\ other.isNull THEN 0
    ELSE IF v.isNull THEN -1
    ELSE IF other.isNull THEN 1
    ELSE IF v.type # other.type THEN 0
    ELSE CASE v.type = TypeBool ->
                LET a == AsBool(v)[1]
                    b == AsBool(other)[1]
                IN  IF a = b THEN 0 ELSE IF ~a /\ b THEN -1 ELSE 1
           [] v.type = TypeInt64 ->
                LET a == AsInt64(v)[1]
                    b == AsInt64(other)[1]
                IN  IF a < b THEN -1 ELSE IF a > b THEN 1 ELSE 0
           [] v.type = TypeFloat64 ->
                LET a == AsFloat64(v)[1]
                    b == AsFloat64(other)[1]
                IN  IF RatLess(a, b) THEN -1 ELSE IF RatLess(b, a) THEN 1 ELSE 0
           [] v.type = TypeString ->
                LET a == AsString(v)[1]
                    b == AsString(other)[1]
                IN  IF StrLess(a, b) THEN -1 ELSE IF StrLess(b, a) THEN 1 ELSE 0
           [] OTHER -> 0

\* <<number, ok>>
ToNumeric(v) ==
    IF v.isNull THEN <<<<0, 1>>, FALSE>>
    ELSE CASE v.type = TypeInt64 -> <<RatOfInt(AsInt64(v)[1]), TRUE>>
           [] v.type = TypeFloat64 -> <<AsFloat64(v)[1], TRUE>>
           [] OTHER -> <<<<0, 1>>, FALSE>>

(***************************************************************************)
(* storage.ColumnDef / storage.TableSchema                                 *)
(***************************************************************************)
NewTableSchema(name) == [Name |-> name, Columns |-> <<>>]

AddColumn(s, name, dataType, nullable) ==
    [s EXCEPT !.Columns = Append(@,
        [Name |-> name, Type |-> dataType, Nullable |-> nullable,
         Position |-> Len(s.Columns)])]

\* The 0-based index of the first column called name, or -1.
GetColumnIndex(s, name) ==
    IF \E i \in 1..Len(s.Columns) : s.Columns[i].Name = name
    THEN (CHOOSE i \in 1..Len(s.Columns) :
            /\ s.Columns[i].Name = name
            /\ \A j \in 1..(i - 1) : s.Columns[j].Name # name) - 1
    ELSE -1

ColumnNames(s) == [i \in 1..Len(s.Columns) |-> s.Columns[i].Name]

(***************************************************************************)
(* storage.ColumnFile                                                      *)
(***************************************************************************)
Pow2(n) == CASE n = 0 -> 1 [] n = 1 -> 2 [] n = 2 -> 4 [] n = 3 -> 8
             [] n = 4 -> 16 [] n = 5 -> 32 [] n = 6 -> 64 [] OTHER -> 128

NewColumnFile(dataType) ==
    [dataType |-> dataType, nullMask |-> <<>>, data |-> <<>>, rowCount |-> 0]

RECURSIVE GrowMask(_, _)
GrowMask(mask, byteIndex) ==
    IF Len(mask) <= byteIndex THEN GrowMask(Append(mask, 0), byteIndex) ELSE mask

\* In the inner EXCEPT, @ is the byte at byteIndex: x |= (1 << bitIndex).
appendNullBit(cf, isNull) ==
    LET byteIndex == cf.rowCount \div 8
        bitIndex == cf.rowCount % 8
    IN  [cf EXCEPT !.nullMask =
            [GrowMask(@, byteIndex) EXCEPT ![byteIndex + 1] =
                IF isNull /\ (@ \div Pow2(bitIndex)) % 2 = 0
                THEN @ + Pow2(bitIndex)
                ELSE @]]

appendZeroValue(cf) ==
    CASE cf.dataType = TypeBool -> [cf EXCEPT !.data = Append(@, NewBoolValue(FALSE))]
      [] cf.dataType = TypeInt64 -> [cf EXCEPT !.data = Append(@, NewInt64Value(0))]
      [] cf.dataType = TypeFloat64 -> [cf EXCEPT !.data = Append(@, NewFloat64Value(<<0, 1>>))]
      [] cf.dataType = TypeString -> [cf EXCEPT !.data = Append(@, NewStringValue(<<>>))]
      [] OTHER -> cf

\* [cf |-> the column afterwards, err |-> whether AppendValue returned an error]
AppendValue(cf, v) ==
    IF v.isNull
    THEN LET c1 == appendZeroValue(appendNullBit(cf, TRUE))
         IN  [cf |-> [c1 EXCEPT !.rowCount = @ + 1], err |-> FALSE]
    ELSE LET c1 == appendNullBit(cf, FALSE)
             slot == CASE cf.dataType = TypeBool -> <<NewBoolValue(AsBool(v)[1])>>
                       [] cf.dataType = TypeInt64 -> <<NewInt64Value(AsInt64(v)[1])>>
                       [] cf.dataType = TypeFloat64 -> <<NewFloat64Value(AsFloat64(v)[1])>>
                       [] cf.dataType = TypeString -> <<NewStringValue(AsString(v)[1])>>
                       [] OTHER -> <<>>
         IN  IF slot = <<>>
             THEN [cf |-> c1, err |-> TRUE]
             ELSE [cf |-> [c1 EXCEPT !.data = Append(@, slot[1]), !.rowCount = @ + 1],
                   err |-> FALSE]

IsNull(cf, rowIndex) ==
    IF rowIndex >= cf.rowCount THEN TRUE
    ELSE LET byteIndex == rowIndex \div 8
             bitIndex == rowIndex % 8
         IN  IF byteIndex >= Len(cf.nullMask) THEN FALSE
             ELSE (cf.nullMask[byteIndex + 1] \div Pow2(bitIndex)) % 2 = 1

GetValue(cf, rowIndex) ==
    IF IsNull(cf, rowIndex) THEN NewNullValue
    ELSE IF cf.dataType \in {TypeBool, TypeInt64, TypeFloat64, TypeString}
            /\ rowIndex < Len(cf.data)
         THEN cf.data[rowIndex + 1]
         ELSE NewNullValue

(***************************************************************************)
(* storage.Table.  A Table is its schema and the map from column name to   *)
(* the open column file; a table directory is the _meta.json sidecar and   *)
(* the col_<name>.dat files it holds.                                      *)
(***************************************************************************)
NoColumns == [n \in {} |-> NewColumnFile(TypeNull)]

Put(m, k, v) == [x \in DOMAIN m \cup {k} |-> IF x = k THEN v ELSE m[x]]
Remove(m, k) == [x \in DOMAIN m \ {k} |-> m[x]]

SchemaNameSet(schema) == {schema.Columns[i].Name : i \in 1..Len(schema.Columns)}

\* A map assignment per schema column, in schema order: the last column of a
\* given name is the one whose assignment stays.
LastColumnCalled(schema, n) ==
    schema.Columns[CHOOSE i \in 1..Len(schema.Columns) :
        /\ schema.Columns[i].Name = n
        /\ \A j \in (i + 1)..Len(schema.Columns) : schema.Columns[j].Name # n]

\* [table |-> the new Table, dir |-> the table directory afterwards].
\* dirs is the set of existing directories as a map of at most one entry.
CreateTable(dirs, schema) ==
    LET t == [Schema |-> schema,
              Columns |-> [n \in SchemaNameSet(schema) |->
                              NewColumnFile(LastColumnCalled(schema, n).Type)]]
        old == IF schema.Name \in DOMAIN dirs
               THEN dirs[schema.Name]
               ELSE [meta |-> schema, cols |-> NoColumns]
    IN  [table |-> t, dir |-> [old EXCEPT !.meta = schema]]

LoadTable(dir) ==
    LET schema == dir.meta
    IN  [Schema |-> schema,
         Columns |-> [n \in SchemaNameSet(schema) |->
                         IF n \in DOMAIN dir.cols
                         THEN dir.cols[n]
                         ELSE NewColumnFile(LastColumnCalled(schema, n).Type)]]

\* Table.Insert appends to the columns one after the other and stops at the
\* first column that refuses its value; what was appended before stays.
\* err is "" on success, else the kind of the error returned.
RECURSIVE InsertFrom(_, _, _)
InsertFrom(t, values, i) ==
    IF i > Len(t.Schema.Columns) THEN [table |-> t, err |-> ""]
    ELSE LET name == t.Schema.Columns[i].Name
             r == AppendValue(t.Columns[name], values[i])
         IN  IF r.err
             THEN [table |-> [t EXCEPT !.Columns[name] = r.cf],
                   err |-> "failed to append value"]
             ELSE InsertFrom([t EXCEPT !.Columns[name] = r.cf], values, i + 1)

Insert(t, values) ==
    IF Len(values) # Len(t.Schema.Columns)
    THEN [table |-> t, err |-> "column count mismatch"]
    ELSE InsertFrom(t, values, 1)

\* Table.RowCount returns the row count of the first column that the
\* iteration over the Columns map yields; Go leaves that order unspecified,
\* so every column's count is a possible answer.
RowCount(t) ==
    IF DOMAIN t.Columns = {} THEN {0}
    ELSE {t.Columns[n].rowCount : n \in DOMAIN t.Columns}

\* The rows Scan hands to its callback when RowCount answered rowCount.
Scan(t, rowCount) ==
    [i \in 1..rowCount |->
        [j \in 1..Len(t.Schema.Columns) |->
            GetValue(t.Columns[t.Schema.Columns[j].Name], i - 1)]]

\* Table.Save rewrites every column file of the table and the sidecar.
Save(t, dir) ==
    [meta |-> t.Schema,
     cols |-> [n \in DOMAIN t.Columns \cup DOMAIN dir.cols |->
                  IF n \in DOMAIN t.Columns THEN t.Columns[n] ELSE dir.cols[n]]]

(***************************************************************************)
(* parser AST.  Every Expression node has the same shape: its kind, a name *)
(* (identifier, operator or function name), one payload field per literal  *)
(* type, and the sequence of its operands.                                 *)
(***************************************************************************)
MkExpr(kind, name, b, i, f, s, args) ==
    [kind |-> kind, name |-> name, b |-> b, i |-> i, f |-> f, s |-> s, args |-> args]

Identifier(name) == MkExpr("Identifier", name, FALSE, 0, <<0, 1>>, <<>>, <<>>)
IntegerLiteral(v) == MkExpr("IntegerLiteral", "", FALSE, v, <<0, 1>>, <<>>, <<>>)
FloatLiteral(v) == MkExpr("FloatLiteral", "", FALSE, 0, v, <<>>, <<>>)
StringLiteral(v) == MkExpr("StringLiteral", "", FALSE, 0, <<0, 1>>, v, <<>>)
BoolLiteral(v) == MkExpr("BoolLiteral", "", v, 0, <<0, 1>>, <<>>, <<>>)
NullLiteral == MkExpr("NullLiteral", "", FALSE, 0, <<0, 1>>, <<>>, <<>>)
BinaryExpression(l, op, r) == MkExpr("BinaryExpression", op, FALSE, 0, <<0, 1>>, <<>>, <<l, r>>)
UnaryExpression(op, x) == MkExpr("UnaryExpression", op, FALSE, 0, <<0, 1>>, <<>>, <<x>>)
FunctionCall(name, args) == MkExpr("FunctionCall", name, FALSE, 0, <<0, 1>>, <<>>, args)

\* SelectColumn: Expression is <<>> for the wildcard, <<e>> otherwise.
Wildcard == [IsWildcard |-> TRUE, Expression |-> <<>>, Alias |-> ""]
SelectColumn(e, alias) == [IsWildcard |-> FALSE, Expression |-> <<e>>, Alias |-> alias]

OrderByClause(col, desc) == [Column |-> col, Desc |-> desc]

\* A statement of any kind; the fields a kind does not have stay empty.
\* Where, Limit and Offset are <<>> when absent (nil) and <<x>> otherwise.
MkStmt(kind, tableName, defs, cols, values, selCols, distinct, where, orderBy, limit, offset) ==
    [kind |-> kind, TableName |-> tableName, Defs |-> defs, Columns |-> cols,
     Values |-> values, SelectColumns |-> selCols, Distinct |-> distinct,
     Where |-> where, OrderBy |-> orderBy, Limit |-> limit, Offset |-> offset,
     IfExists |-> FALSE]

CreateTableStatement(t, defs) ==
    MkStmt("CreateTable", t, defs, <<>>, <<>>, <<>>, FALSE, <<>>, <<>>, <<>>, <<>>)
DropTableStatement(t) ==
    MkStmt("DropTable", t, <<>>, <<>>, <<>>, <<>>, FALSE, <<>>, <<>>, <<>>, <<>>)
InsertStatement(t, cols, values) ==
    MkStmt("Insert", t, <<>>, cols, values, <<>>, FALSE, <<>>, <<>>, <<>>, <<>>)
SelectStatement(t, selCols, distinct, where, orderBy, limit, offset) ==
    MkStmt("Select", t, <<>>, <<>>, <<>>, selCols, distinct, where, orderBy, limit, offset)
NoStatement ==
    MkStmt("None", "", <<>>, <<>>, <<>>, <<>>, FALSE, <<>>, <<>>, <<>>, <<>>)

ColumnDefinition(name, dataType, nullable) ==
    [Name |-> name, DataType |-> dataType, Nullable |-> nullable]

(***************************************************************************)
(* Executor: expression and condition evaluation.                          *)
(* bound is "columns != nil && row != nil".                                *)
(***************************************************************************)
\* The value of the first column called name in the row, <<>> if none.
LookupColumn(columns, row, name) ==
    IF \E i \in 1..Len(columns) : columns[i] = name
    THEN <<row[CHOOSE i \in 1..Len(columns) :
                /\ columns[i] = name
                /\ \A j \in 1..(i - 1) : columns[j] # name]>>
    ELSE <<>>

ArithOps == {"+", "-", "*", "/"}

Arith(op, lv, rv) ==
    CASE op = "+" -> RatAdd(lv, rv)
      [] op = "-" -> RatSub(lv, rv)
      [] op = "*" -> RatMul(lv, rv)
      [] OTHER -> RatDiv(lv, rv)

\* [val |-> the Value, err |-> whether an error was returned]
RECURSIVE evaluateExpression(_, _, _, _)
evaluateExpression(ex, bound, columns, row) ==
    CASE ex.kind = "Identifier" ->
            LET hit == IF bound THEN LookupColumn(columns, row, ex.name) ELSE <<>>
            IN  [val |-> IF hit # <<>> THEN hit[1] ELSE NewNullValue, err |-> FALSE]
      [] ex.kind = "IntegerLiteral" -> [val |-> NewInt64Value(ex.i), err |-> FALSE]
      [] ex.kind = "FloatLiteral" -> [val |-> NewFloat64Value(ex.f), err |-> FALSE]
      [] ex.kind = "StringLiteral" -> [val |-> NewStringValue(ex.s), err |-> FALSE]
      [] ex.kind = "BoolLiteral" -> [val |-> NewBoolValue(ex.b), err |-> FALSE]
      [] ex.kind = "NullLiteral" -> [val |-> NewNullValue, err |-> FALSE]
      [] ex.kind = "BinaryExpression" ->
            LET left == evaluateExpression(ex.args[1], bound, columns, row)
            IN  IF left.err THEN [val |-> NewNullValue, err |-> TRUE]
                ELSE LET right == evaluateExpression(ex.args[2], bound, columns, row)
                     IN  IF right.err THEN [val |-> NewNullValue, err |-> TRUE]
                         ELSE LET lv == ToNumeric(left.val)
                                  rv == ToNumeric(right.val)
                              IN  IF /\ ex.name \in ArithOps
                                     /\ lv[2]
                                     /\ rv[2]
                                     /\ (ex.name = "/" => rv[1][1] # 0)
                                  THEN [val |-> NewFloat64Value(Arith(ex.name, lv[1], rv[1])),
                                        err |-> FALSE]
                                  ELSE [val |-> NewNullValue, err |-> FALSE]
      [] ex.kind = "UnaryExpression" ->
            LET r == evaluateExpression(ex.args[1], bound, columns, row)
            IN  IF r.err THEN [val |-> NewNullValue, err |-> TRUE]
                ELSE IF ex.name = "-" /\ AsInt64(r.val)[2]
                     THEN [val |-> NewInt64Value(-AsInt64(r.val)[1]), err |-> FALSE]
                ELSE IF ex.name = "-" /\ AsFloat64(r.val)[2]
                     THEN [val |-> NewFloat64Value(RatNeg(AsFloat64(r.val)[1])), err |-> FALSE]
                ELSE IF ex.name = "NOT" /\ AsBool(r.val)[2]
                     THEN [val |-> NewBoolValue(~AsBool(r.val)[1]), err |-> FALSE]
                ELSE [val |-> NewNullValue, err |-> FALSE]
      [] OTHER -> [val |-> NewNullValue, err |-> TRUE]

\* compareValues without its NULL test: the operator decides on what
\* Value.Compare answers for a NULL operand.
compareValues_NoNullTest(left, right, op) ==
    \E cmp \in {Compare(left, right)} :
        CASE op = "=" -> cmp = 0
          [] op \in {"<>", "!="} -> cmp # 0
          [] op = "<" -> cmp < 0
          [] op = ">" -> cmp > 0
          [] op = "<=" -> cmp <= 0
          [] op = ">=" -> cmp >= 0
          [] OTHER -> FALSE

compareValues(left, right, op) ==
    IF left.isNull \/ right.isNull THEN FALSE
    ELSE \E cmp \in {Compare(left, right)} :
            CASE op = "=" -> cmp = 0
              [] op \in {"<>", "!="} -> cmp # 0
              [] op = "<" -> cmp < 0
              [] op = ">" -> cmp > 0
              [] op = "<=" -> cmp <= 0
              [] op = ">=" -> cmp >= 0
              [] OTHER -> FALSE

\* [val |-> the truth value, err |-> whether an error was returned]
RECURSIVE evaluateCondition(_, _, _)
evaluateCondition(ex, columns, row) ==
    CASE ex.kind = "BinaryExpression" /\ ex.name \in {"AND", "and", "And"} ->
            LET left == evaluateCondition(ex.args[1], columns, row)
            IN  IF left.err THEN [val |-> FALSE, err |-> TRUE]
                ELSE IF ~left.val THEN [val |-> FALSE, err |-> FALSE]
                ELSE evaluateCondition(ex.args[2], columns, row)
      [] ex.kind = "BinaryExpression" /\ ex.name \in {"OR", "or", "Or"} ->
            LET left == evaluateCondition(ex.args[1], columns, row)
            IN  IF left.err THEN [val |-> FALSE, err |-> TRUE]
                ELSE IF left.val THEN [val |-> TRUE, err |-> FALSE]
                ELSE evaluateCondition(ex.args[2], columns, row)
      [] ex.kind = "BinaryExpression" /\ ex.name \notin {"AND", "and", "And", "OR", "or", "Or"} ->
            LET left == evaluateExpression(ex.args[1], TRUE, columns, row)
            IN  IF left.err THEN [val |-> FALSE, err |-> TRUE]
                ELSE LET right == evaluateExpression(ex.args[2], TRUE, columns, row)
                     IN  IF right.err THEN [val |-> FALSE, err |-> TRUE]
                         ELSE [val |-> compareValues(left.val, right.val, ex.name),
                               err |-> FALSE]
      [] ex.kind = "UnaryExpression" /\ ex.name = "NOT" ->
            LET r == evaluateCondition(ex.args[1], columns, row)
            IN  IF r.err THEN [val |-> FALSE, err |-> TRUE]
                ELSE [val |-> ~r.val, err |-> FALSE]
      [] ex.kind = "BoolLiteral" -> [val |-> ex.b, err |-> FALSE]
      [] OTHER -> [val |-> FALSE, err |-> FALSE]

(***************************************************************************)
(* storage.Value.String, as bytes.                                         *)
(***************************************************************************)
RECURSIVE Digits(_)
Digits(n) == IF n < 10 THEN <<48 + n>> ELSE Append(Digits(n \div 10), 48 + (n % 10))

RECURSIVE PadLeft(_, _)
PadLeft(ds, width) == IF Len(ds) >= width THEN ds ELSE PadLeft(<<48>> \o ds, width)

\* fmt's %d
FormatInt(n) == IF n < 0 THEN <<45>> \o Digits(-n) ELSE Digits(n)

\* fmt's %.6f: the nearest multiple of 10^-6, a tie going to the even one.
FormatFloat6(x) ==
    LET n == Abs(x[1]) * 1000000
        q == n \div x[2]
        r == n % x[2]
        scaled == IF 2 * r > x[2] \/ (2 * r = x[2] /\ q % 2 = 1) THEN q + 1 ELSE q
        body == Digits(scaled \div 1000000) \o <<46>> \o PadLeft(Digits(scaled % 1000000), 6)
    IN  IF x[1] < 0 THEN <<45>> \o body ELSE body

String(v) ==
    IF v.isNull THEN <<78, 85, 76, 76>>
    ELSE CASE v.type = TypeBool ->
                IF v.b THEN <<116, 114, 117, 101>> ELSE <<102, 97, 108, 115, 101>>
           [] v.type = TypeInt64 -> FormatInt(v.i)
           [] v.type = TypeFloat64 -> FormatFloat6(v.f)
           [] v.type = TypeString -> v.s
           [] OTHER -> <<85, 78, 75, 78, 79, 87, 78>>

(***************************************************************************)
(* Executor: DISTINCT and ORDER BY.                                        *)
(***************************************************************************)
RECURSIVE JoinFrom(_, _)
JoinFrom(row, i) ==
    IF i > Len(row) THEN <<>>
    ELSE IF i = Len(row) THEN String(row[i])
    ELSE String(row[i]) \o <<0>> \o JoinFrom(row, i + 1)

rowKey(row) == JoinFrom(row, 1)

RECURSIVE DistinctFrom(_, _, _, _)
DistinctFrom(rows, i, seen, result) ==
    IF i > Len(rows) THEN result
    ELSE LET key == rowKey(rows[i])
         IN  IF key \in seen
             THEN DistinctFrom(rows, i + 1, seen, result)
             ELSE DistinctFrom(rows, i + 1, seen \cup {key}, Append(result, rows[i]))

\* A DISTINCT that returns the surviving rows newest first.
applyDistinct_NewestFirst(rows) ==
    [i \in 1..Len(DistinctFrom(rows, 1, {}, <<>>)) |->
        DistinctFrom(rows, 1, {}, <<>>)[Len(DistinctFrom(rows, 1, {}, <<>>)) + 1 - i]]

applyDistinct(rows) == DistinctFrom(rows, 1, {}, <<>>)

\* colIndices[col] = i is assigned for i = 0, 1, ... : the last column of a
\* name keeps the entry.  <<>> when the name is no output column.
colIndex(columns, col) ==
    IF \E i \in 1..Len(columns) : columns[i] = col
    THEN <<CHOOSE i \in 1..Len(columns) :
                /\ columns[i] = col
                /\ \A j \in (i + 1)..Len(columns) : columns[j] # col>>
    ELSE <<>>

\* The less function handed to sort.SliceStable.
RECURSIVE lessFrom(_, _, _, _, _)
lessFrom(columns, orderBy, k, a, b) ==
    IF k > Len(orderBy) THEN FALSE
    ELSE LET idx == colIndex(columns, orderBy[k].Column)
         IN  IF idx = <<>> THEN lessFrom(columns, orderBy, k + 1, a, b)
             ELSE LET cmp == Compare(a[idx[1]], b[idx[1]])
                  IN  IF cmp # 0
                      THEN (IF orderBy[k].Desc THEN cmp > 0 ELSE cmp < 0)
                      ELSE lessFrom(columns, orderBy, k + 1, a, b)

\* A less function that also answers true for rows equal on every key.
less_NonStrict(columns, orderBy, a, b) == ~lessFrom(columns, orderBy, 1, b, a)

less(columns, orderBy, a, b) == lessFrom(columns, orderBy, 1, a, b)

\* sort.SliceStable on fewer than 20 elements is one insertion sort:
\*   for i := 1; i < n; i++ { for j := i; j > 0 && less(j, j-1); j-- { swap } }
RECURSIVE sinkFrom(_, _, _, _)
sinkFrom(columns, orderBy, rows, j) ==
    IF j > 1 /\ less(columns, orderBy, rows[j], rows[j - 1])
    THEN sinkFrom(columns, orderBy,
                  [rows EXCEPT ![j] = rows[j - 1], ![j - 1] = rows[j]], j - 1)
    ELSE rows

RECURSIVE insertionSortFrom(_, _, _, _)
insertionSortFrom(columns, orderBy, rows, i) ==
    IF i > Len(rows) THEN rows
    ELSE insertionSortFrom(columns, orderBy, sinkFrom(columns, orderBy, rows, i), i + 1)

applyOrderBy(columns, rows, orderBy) == insertionSortFrom(columns, orderBy, rows, 2)

(***************************************************************************)
(* Executor.executeSelect on a resolved table.  rowCount is the answer of  *)
(* Table.RowCount.  The aggregate path is taken when a top-level select    *)
(* item is a function call.                                                *)
(***************************************************************************)
Result(columns, rows, panic) == [Columns |-> columns, Rows |-> rows, panic |-> panic]
NoResult == Result(<<>>, <<>>, FALSE)

\* The output name of one non-wildcard select item.
selectColumnName(col) ==
    LET e == col.Expression[1]
    IN  CASE e.kind = "FunctionCall" ->
                IF col.Alias # "" THEN col.Alias
                ELSE IF Len(e.args) > 0 /\ e.args[1].kind = "Identifier"
                     THEN e.name \o "(" \o e.args[1].name \o ")"
                     ELSE e.name
          [] e.kind = "Identifier" -> IF col.Alias # "" THEN col.Alias ELSE e.name
          [] OTHER -> "?"

RECURSIVE selectColumnsFrom(_, _, _)
selectColumnsFrom(schema, cols, i) ==
    IF i > Len(cols) THEN <<>>
    ELSE (IF cols[i].IsWildcard THEN ColumnNames(schema)
          ELSE <<selectColumnName(cols[i])>>) \o selectColumnsFrom(schema, cols, i + 1)

RECURSIVE selectExpressionsFrom(_, _, _)
selectExpressionsFrom(schema, cols, i) ==
    IF i > Len(cols) THEN <<>>
    ELSE (IF cols[i].IsWildcard
          THEN [j \in 1..Len(schema.Columns) |-> Identifier(schema.Columns[j].Name)]
          ELSE <<cols[i].Expression[1]>>) \o selectExpressionsFrom(schema, cols, i + 1)

hasAggregates(cols) ==
    \E i \in 1..Len(cols) :
        ~cols[i].IsWildcard /\ cols[i].Expression[1].kind = "FunctionCall"

\* The guard at the top of both scan callbacks: the row goes on when there
\* is no WHERE, or WHERE evaluates without error to true.
whereHolds(where, columns, row) ==
    IF where = <<>> THEN TRUE
    ELSE \E cond \in {evaluateCondition(where[1], columns, row)} : ~cond.err /\ cond.val

\* The scan callback of the projection path, row after row.
RECURSIVE filterProjectFrom(_, _, _, _, _)
filterProjectFrom(schema, where, exprs, scanned, i) ==
    IF i > Len(scanned) THEN <<>>
    ELSE (IF whereHolds(where, ColumnNames(schema), scanned[i])
          THEN <<[k \in 1..Len(exprs) |->
                    evaluateExpression(exprs[k], TRUE, ColumnNames(schema), scanned[i]).val]>>
          ELSE <<>>)
         \o filterProjectFrom(schema, where, exprs, scanned, i + 1)

\* The four clauses that follow the scan, each on the Result so far.
distinctStep(stmt, result) ==
    IF stmt.Distinct THEN [result EXCEPT !.Rows = applyDistinct(@)] ELSE result

orderByStep(stmt, result) ==
    IF Len(stmt.OrderBy) > 0
    THEN [result EXCEPT !.Rows = applyOrderBy(result.Columns, @, stmt.OrderBy)]
    ELSE result

offsetStep(stmt, result) ==
    IF stmt.Offset # <<>> /\ stmt.Offset[1] > 0
    THEN IF stmt.Offset[1] < Len(result.Rows)
         THEN [result EXCEPT !.Rows = SubSeq(@, stmt.Offset[1] + 1, Len(@))]
         ELSE [result EXCEPT !.Rows = <<>>]
    ELSE result

\* rows[:limit] with a negative limit is a run-time panic.
limitStep(stmt, result) ==
    IF stmt.Limit # <<>> /\ stmt.Limit[1] < Len(result.Rows)
    THEN IF stmt.Limit[1] < 0
         THEN [result EXCEPT !.Rows = <<>>, !.panic = TRUE]
         ELSE [result EXCEPT !.Rows = SubSeq(@, 1, stmt.Limit[1])]
    ELSE result

\* The projection path with LIMIT applied before OFFSET.
projectionSelect_LimitFirst(stmt, table, rowCount) ==
    offsetStep(stmt, limitStep(stmt, orderByStep(stmt, distinctStep(stmt,
        Result(selectColumnsFrom(table.Schema, stmt.SelectColumns, 1),
               filterProjectFrom(table.Schema, stmt.Where,
                                 selectExpressionsFrom(table.Schema, stmt.SelectColumns, 1),
                                 Scan(table, rowCount), 1),
               FALSE)))))

projectionSelect(stmt, table, rowCount) ==
    limitStep(stmt, offsetStep(stmt, orderByStep(stmt, distinctStep(stmt,
        Result(selectColumnsFrom(table.Schema, stmt.SelectColumns, 1),
               filterProjectFrom(table.Schema, stmt.Where,
                                 selectExpressionsFrom(table.Schema, stmt.SelectColumns, 1),
                                 Scan(table, rowCount), 1),
               FALSE)))))

\* The rows of the scan that pass WHERE.
RECURSIVE matchingFrom(_, _, _, _)
matchingFrom(schema, where, scanned, i) ==
    IF i > Len(scanned) THEN <<>>
    ELSE (IF whereHolds(where, ColumnNames(schema), scanned[i])
          THEN <<scanned[i]>> ELSE <<>>)
         \o matchingFrom(schema, where, scanned, i + 1)

aggregateState0 ==
    [count |-> 0, sum |-> <<0, 1>>, min |-> NewNullValue, max |-> NewNullValue,
     hasMin |-> FALSE, hasMax |-> FALSE]

\* One function call's running state after a row whose argument evaluated
\* to val (COUNT does not look at it).
accumulateValue(state, fn, val) ==
    CASE fn.name = "COUNT" -> [state EXCEPT !.count = @ + 1]
      [] fn.name \in {"SUM", "AVG"} ->
            IF Len(fn.args) > 0 /\ ToNumeric(val)[2]
            THEN [state EXCEPT !.sum = RatAdd(@, ToNumeric(val)[1]), !.count = @ + 1]
            ELSE state
      [] fn.name = "MIN" ->
            IF Len(fn.args) > 0 /\ ~val.isNull
               /\ (~state.hasMin \/ Compare(val, state.min) < 0)
            THEN [state EXCEPT !.min = val, !.hasMin = TRUE]
            ELSE state
      [] fn.name = "MAX" ->
            IF Len(fn.args) > 0 /\ ~val.isNull
               /\ (~state.hasMax \/ Compare(val, state.max) > 0)
            THEN [state EXCEPT !.max = val, !.hasMax = TRUE]
            ELSE state
      [] OTHER -> state

accumulate(state, fn, schema, row) ==
    accumulateValue(state, fn,
        IF Len(fn.args) > 0
        THEN evaluateExpression(fn.args[1], TRUE, ColumnNames(schema), row).val
        ELSE NewNullValue)

RECURSIVE accumulateFrom(_, _, _, _, _)
accumulateFrom(state, fn, schema, rows, i) ==
    IF i > Len(rows) THEN state
    ELSE accumulateFrom(accumulate(state, fn, schema, rows[i]), fn, schema, rows, i + 1)

\* A result switch in which SUM and AVG over nothing are 0 instead of NULL.
finalValue_ZeroSum(state, fn) ==
    CASE fn.name = "COUNT" -> NewInt64Value(state.count)
      [] fn.name \in {"SUM", "AVG"} -> NewFloat64Value(state.sum)
      [] fn.name = "MIN" -> IF state.hasMin THEN state.min ELSE NewNullValue
      [] fn.name = "MAX" -> IF state.hasMax THEN state.max ELSE NewNullValue
      [] OTHER -> MkValue(TypeNull, FALSE, FALSE, 0, <<0, 1>>, <<>>)

finalValue(state, fn) ==
    CASE fn.name = "COUNT" -> NewInt64Value(state.count)
      [] fn.name = "SUM" ->
            IF state.count = 0 THEN NewNullValue ELSE NewFloat64Value(state.sum)
      [] fn.name = "AVG" ->
            IF state.count = 0 THEN NewNullValue
            ELSE NewFloat64Value(RatDiv(state.sum, RatOfInt(state.count)))
      [] fn.name = "MIN" -> IF state.hasMin THEN state.min ELSE NewNullValue
      [] fn.name = "MAX" -> IF state.hasMax THEN state.max ELSE NewNullValue
      [] OTHER -> MkValue(TypeNull, FALSE, FALSE, 0, <<0, 1>>, <<>>)

\* The single row of the aggregate path over the rows that passed WHERE.
aggregateRow(schema, exprs, rows) ==
    [k \in 1..Len(exprs) |->
        IF exprs[k].kind # "FunctionCall" THEN NewNullValue
        ELSE finalValue(accumulateFrom(aggregateState0, exprs[k], schema, rows, 1),
                        exprs[k])]

\* An aggregate path that goes on to apply OFFSET and LIMIT to its row.
executeAggregateSelect_Sliced(stmt, table, rowCount) ==
    limitStep(stmt, offsetStep(stmt,
        Result(selectColumnsFrom(table.Schema, stmt.SelectColumns, 1),
               <<aggregateRow(table.Schema,
                              selectExpressionsFrom(table.Schema, stmt.SelectColumns, 1),
                              matchingFrom(table.Schema, stmt.Where, Scan(table, rowCount), 1))>>,
               FALSE)))

executeAggregateSelect(stmt, table, rowCount) ==
    Result(selectColumnsFrom(table.Schema, stmt.SelectColumns, 1),
           <<aggregateRow(table.Schema,
                          selectExpressionsFrom(table.Schema, stmt.SelectColumns, 1),
                          matchingFrom(table.Schema, stmt.Where, Scan(table, rowCount), 1))>>,
           FALSE)

\* executeSelect once getTable has answered.
executeSelect(stmt, table, rowCount) ==
    IF hasAggregates(stmt.SelectColumns)
    THEN executeAggregateSelect(stmt, table, rowCount)
    ELSE projectionSelect(stmt, table, rowCount)

(***************************************************************************)
(* The state: the Catalog's in-memory map and its persisted document, the  *)
(* Executor's table cache, the table directories of the data directory,    *)
(* and the last statement with what Execute returned for it.               *)
(* hist is a history variable: for every table, the rows its successful    *)
(* INSERTs supplied since its CREATE TABLE, and whether every INSERT       *)
(* attempted on it since then succeeded with values of the declared types. *)
(***************************************************************************)
VARIABLES catalog, catFile, tables, disk, last, hist

(***************************************************************************)
(* The state of the storage package on its own: one ColumnFile in memory,  *)
(* the bytes of its file (NoFile before the first Save) and the ColumnFile *)
(* LoadColumnFile made of that file (NoLoad before it ran).                *)
(***************************************************************************)
VARIABLES column, colFile, loaded

(***************************************************************************)
(* The Catalog under concurrent callers: mu is the sync.RWMutex, pc says   *)
(* for every caller which Catalog method it runs and where in it it is,    *)
(* and saveFailed records that a write of catalog.json has failed.         *)
(***************************************************************************)
VARIABLES mu, pc, saveFailed

(***************************************************************************)
(* The operands and the results of Value.Compare called on its own.        *)
(***************************************************************************)
VARIABLES compared

(***************************************************************************)
(* The tokens handed to Parser.parseExpression called on its own, and the  *)
(* expression it returned.                                                 *)
(***************************************************************************)
VARIABLES parsed

columnUnit == <<column, colFile, loaded>>
catalogUnit == <<mu, pc, saveFailed>>

pureUnit == <<compared, parsed>>

units == <<columnUnit, catalogUnit, pureUnit>>

vars == <<catalog, catFile, tables, disk, last, hist, units>>

NoFile == <<>>
NoLoad == [err |-> "not loaded"]

MaxCallers == 2

Callers == 1..MaxCallers

\* A caller outside every Catalog method.
\* before is the map when the method took the lock, result what it returns.
Idle ==
    [op |-> "", name |-> "", at |-> "idle", failed |-> FALSE, err |-> "",
     before |-> <<>>, result |-> <<>>]

NoComparison == <<>>
NoParse == <<>>

NoColumn ==
    /\ column = NewColumnFile(TypeNull)
    /\ colFile = NoFile
    /\ loaded = NoLoad

NoCalls ==
    /\ mu = [writer |-> FALSE, readers |-> 0]
    /\ pc = [c \in Callers |-> Idle]
    /\ saveFailed = FALSE

\* The executor runs alone: no value of the storage package is in use.
NoUnits == NoColumn /\ NoCalls /\ compared = NoComparison /\ parsed = NoParse

NoTables == [n \in {} |-> NewTableSchema("")]
NoCache == [n \in {} |-> [Schema |-> NewTableSchema(""), Columns |-> NoColumns]]
NoDirs == [n \in {} |-> [meta |-> NewTableSchema(""), cols |-> NoColumns]]
NoHist == [n \in {} |-> [rows |-> <<>>, clean |-> TRUE]]
NoTable == [Schema |-> NewTableSchema(""), Columns |-> NoColumns]

Outcome(stmt, outcome, err, result) ==
    [stmt |-> stmt, outcome |-> outcome, err |-> err, result |-> result]

(***************************************************************************)
(* Catalog                                                                 *)
(***************************************************************************)
TableExists(cat, name) == name \in DOMAIN cat

\* [tables |-> the map afterwards, file |-> the document afterwards, err]
RegisterTable(cat, file, schema) ==
    IF schema.Name \in DOMAIN cat
    THEN [tables |-> cat, file |-> file, err |-> TRUE]
    ELSE LET c1 == Put(cat, schema.Name, schema)
         IN  [tables |-> c1, file |-> c1, err |-> FALSE]

DropTable(cat, file, name) ==
    IF name \notin DOMAIN cat
    THEN [tables |-> cat, file |-> file, err |-> TRUE]
    ELSE LET c1 == Remove(cat, name)
         IN  [tables |-> c1, file |-> c1, err |-> FALSE]

(***************************************************************************)
(* Executor.getTable: the cached Table, else the one LoadTable reads.      *)
(***************************************************************************)
\* What a table directory holds in place of _meta.json when the file was
\* never written.
NoMeta == NewTableSchema("")

\* LoadTable succeeds on the directory of name: _meta.json can be read.
Loadable(dirs, name) == name \in DOMAIN dirs /\ dirs[name].meta # NoMeta

\* getTable that trusts the data directory instead of asking the Catalog.
getTable_NoCatalogCheck(cache, cat, dirs, name) ==
    IF name \in DOMAIN cache
    THEN [err |-> "", table |-> cache[name], tables |-> cache]
    ELSE IF ~Loadable(dirs, name)
    THEN [err |-> "failed to read table metadata", table |-> NoTable, tables |-> cache]
    ELSE LET t == LoadTable(dirs[name])
         IN  [err |-> "", table |-> t, tables |-> Put(cache, name, t)]

getTable(cache, cat, dirs, name) ==
    IF name \in DOMAIN cache
    THEN [err |-> "", table |-> cache[name], tables |-> cache]
    ELSE IF ~TableExists(cat, name)
    THEN [err |-> "table does not exist", table |-> NoTable, tables |-> cache]
    ELSE IF ~Loadable(dirs, name)
    THEN [err |-> "failed to read table metadata", table |-> NoTable, tables |-> cache]
    ELSE LET t == LoadTable(dirs[name])
         IN  [err |-> "", table |-> t, tables |-> Put(cache, name, t)]

(***************************************************************************)
(* Executor.executeInsert: the row to insert.                              *)
(***************************************************************************)
\* The loop over an explicit column list.  status is "" while it runs on,
\* "column not found", "unsupported expression type", or "panic" when
\* stmt.Values[i] is indexed past the end of the value list.
RECURSIVE assignListed(_, _, _, _)
assignListed(schema, stmt, i, values) ==
    IF i > Len(stmt.Columns) THEN [status |-> "", values |-> values]
    ELSE LET idx == GetColumnIndex(schema, stmt.Columns[i])
         IN  IF idx = -1 THEN [status |-> "column not found", values |-> values]
             ELSE IF i > Len(stmt.Values) THEN [status |-> "panic", values |-> values]
             ELSE LET r == evaluateExpression(stmt.Values[i], FALSE, <<>>, <<>>)
                  IN  IF r.err
                      THEN [status |-> "unsupported expression type", values |-> values]
                      ELSE assignListed(schema, stmt, i + 1,
                                        [values EXCEPT ![idx + 1] = r.val])

\* A positional INSERT that fills the columns it has no value for with NULL
\* and ignores the values it has no column for.
insertValues_Pad(schema, stmt) ==
    IF Len(stmt.Columns) > 0
    THEN assignListed(schema, stmt, 1, [j \in 1..Len(schema.Columns) |-> NewNullValue])
    ELSE [status |-> "",
          values |-> [j \in 1..Len(schema.Columns) |->
                         IF j <= Len(stmt.Values)
                         THEN evaluateExpression(stmt.Values[j], FALSE, <<>>, <<>>).val
                         ELSE NewNullValue]]

insertValues(schema, stmt) ==
    IF Len(stmt.Columns) > 0
    THEN assignListed(schema, stmt, 1, [j \in 1..Len(schema.Columns) |-> NewNullValue])
    ELSE IF Len(stmt.Values) # Len(schema.Columns)
    THEN [status |-> "column count mismatch", values |-> <<>>]
    ELSE IF \E j \in 1..Len(stmt.Values) :
                evaluateExpression(stmt.Values[j], FALSE, <<>>, <<>>).err
    THEN [status |-> "unsupported expression type", values |-> <<>>]
    ELSE [status |-> "",
          values |-> [j \in 1..Len(stmt.Values) |->
                         evaluateExpression(stmt.Values[j], FALSE, <<>>, <<>>).val]]

(***************************************************************************)
(* Executor: the four statement handlers, as functions of the state.       *)
(* Each answers [outcome, err, catalog, catFile, tables, disk, ...].       *)
(***************************************************************************)
Answer(outcome, err, cat, file, cache, dirs, result) ==
    [outcome |-> outcome, err |-> err, catalog |-> cat, catFile |-> file,
     tables |-> cache, disk |-> dirs, result |-> result]

RECURSIVE schemaFrom(_, _, _)
schemaFrom(schema, defs, i) ==
    IF i > Len(defs) THEN schema
    ELSE schemaFrom(AddColumn(schema, defs[i].Name, ParseDataType(defs[i].DataType),
                              defs[i].Nullable), defs, i + 1)

\* A double CREATE that skips the existence test and writes the table
\* directory before it registers the schema.
executeCreateTable_Overwrite(cat, file, cache, dirs, stmt) ==
    LET schema == schemaFrom(NewTableSchema(stmt.TableName), stmt.Defs, 1)
        created == CreateTable(dirs, schema)
        c1 == Put(cat, stmt.TableName, schema)
    IN  Answer("ok", "", c1, c1,
               Put(cache, stmt.TableName, created.table),
               Put(dirs, stmt.TableName, created.dir), NoResult)

executeCreateTable(cat, file, cache, dirs, stmt) ==
    IF TableExists(cat, stmt.TableName)
    THEN Answer("error", "table already exists", cat, file, cache, dirs, NoResult)
    ELSE LET schema == schemaFrom(NewTableSchema(stmt.TableName), stmt.Defs, 1)
             reg == RegisterTable(cat, file, schema)
         IN  IF reg.err
             THEN Answer("error", "table already exists", reg.tables, reg.file,
                         cache, dirs, NoResult)
             ELSE LET created == CreateTable(dirs, schema)
                  IN  Answer("ok", "", reg.tables, reg.file,
                             Put(cache, stmt.TableName, created.table),
                             Put(dirs, stmt.TableName, created.dir), NoResult)

executeDropTable(cat, file, cache, dirs, stmt) ==
    IF ~TableExists(cat, stmt.TableName)
    THEN IF stmt.IfExists
         THEN Answer("ok", "", cat, file, cache, dirs, NoResult)
         ELSE Answer("error", "table does not exist", cat, file, cache, dirs, NoResult)
    ELSE LET cached == stmt.TableName \in DOMAIN cache
             \* table.Drop() is os.RemoveAll of the cached Table's directory
             dirs1 == IF cached THEN Remove(dirs, stmt.TableName) ELSE dirs
             cache1 == IF cached THEN Remove(cache, stmt.TableName) ELSE cache
             dropped == DropTable(cat, file, stmt.TableName)
         IN  IF dropped.err
             THEN Answer("error", "table does not exist", dropped.tables, dropped.file,
                         cache1, dirs1, NoResult)
             ELSE Answer("ok", "", dropped.tables, dropped.file, cache1, dirs1, NoResult)

\* executeInsert once the row to insert is known: Table.Insert, Table.Save.
\* The cached Table is a pointer, so what Insert appended stays in the cache
\* when Insert fails.
insertRow(cat, file, cache, dirs, name, table, row) ==
    IF row.status = "panic"
    THEN Answer("panic", "index out of range", cat, file, cache, dirs, NoResult)
    ELSE IF row.status # ""
    THEN Answer("error", row.status, cat, file, cache, dirs, NoResult)
    ELSE LET ins == Insert(table, row.values)
         IN  IF ins.err # ""
             THEN Answer("error", ins.err, cat, file,
                         Put(cache, name, ins.table), dirs, NoResult)
             ELSE Answer("ok", "", cat, file, Put(cache, name, ins.table),
                         Put(dirs, name, Save(ins.table, dirs[name])), NoResult)

executeInsert(cat, file, cache, dirs, stmt) ==
    LET got == getTable(cache, cat, dirs, stmt.TableName)
    IN  IF got.err # ""
        THEN Answer("error", got.err, cat, file, got.tables, dirs, NoResult)
        ELSE insertRow(cat, file, got.tables, dirs, stmt.TableName, got.table,
                       insertValues(got.table.Schema, stmt))

\* What Execute returns for the Result of a SELECT.
selectAnswer(cat, file, cache, dirs, res) ==
    IF res.panic
    THEN Answer("panic", "slice bounds out of range", cat, file, cache, dirs, NoResult)
    ELSE Answer("ok", "", cat, file, cache, dirs, res)

\* rowCount is the answer Table.RowCount gives during this call.
executeSelectStatement(cat, file, cache, dirs, stmt, rowCount) ==
    LET got == getTable(cache, cat, dirs, stmt.TableName)
    IN  IF got.err # ""
        THEN Answer("error", got.err, cat, file, got.tables, dirs, NoResult)
        ELSE selectAnswer(cat, file, got.tables, dirs,
                          executeSelect(stmt, got.table, rowCount))

(***************************************************************************)
(* The statements the model executes.                                      *)
(***************************************************************************)
TableNames == {"t"}

SchemaDefs ==
    { <<ColumnDefinition("a", "INT64", TRUE), ColumnDefinition("b", "STRING", TRUE)>>,
      <<ColumnDefinition("a", "INT64", TRUE), ColumnDefinition("a", "INT64", TRUE)>>,
      <<ColumnDefinition("a", "STRING", TRUE), ColumnDefinition("b", "XYZ", TRUE)>> }

\* INSERT value lists: rows of the declared types, rows of other types, and
\* lists that are too short or too long.
Int1 == IntegerLiteral(1)
Int2 == IntegerLiteral(2)
StrX == StringLiteral(<<120>>)

PositionalValues ==
    { <<Int1>>, <<Int1, StrX>>, <<Int2, NullLiteral>>, <<StrX, Int1>>,
      <<StrX, NullLiteral>>, <<Int1, Int2>>, <<Int1, Int1, Int1>> }

ListedInserts ==
    { <<<<"a">>, <<Int1>>>>, <<<<"a">>, <<StrX>>>>, <<<<"a">>, <<Int1, StrX>>>>,
      <<<<"b">>, <<StrX>>>>, <<<<"b", "a">>, <<StrX, Int2>>>>,
      <<<<"b", "a">>, <<StrX>>>>, <<<<"c">>, <<Int1>>>>,
      <<<<"a", "c">>, <<Int1, Int1>>>>, <<<<"a", "a">>, <<Int1, Int2>>>> }

CreateStatements == {CreateTableStatement(t, d) : t \in TableNames, d \in SchemaDefs}

DropStatements == {DropTableStatement(t) : t \in TableNames}

InsertStatements ==
    {InsertStatement(t, <<>>, vs) : t \in TableNames, vs \in PositionalValues}
    \cup {InsertStatement(t, ci[1], ci[2]) : t \in TableNames, ci \in ListedInserts}

SelectAll(t) == SelectStatement(t, <<Wildcard>>, FALSE, <<>>, <<>>, <<>>, <<>>)

SelectStatements ==
    {SelectAll(t) : t \in TableNames}
    \cup {SelectStatement(t, <<SelectColumn(Identifier(c), "")>>, FALSE, <<>>, <<>>, <<>>, <<>>) :
            t \in TableNames, c \in {"a", "c"}}
    \cup {SelectStatement(t, <<Wildcard>>, FALSE,
                          <<BinaryExpression(Identifier(c), "=", IntegerLiteral(1))>>,
                          <<>>, <<>>, <<>>) :
            t \in TableNames, c \in {"a", "c"}}

(***************************************************************************)
(* The state machine: a fresh data directory, then statements and          *)
(* restarts (a new Catalog and a new Executor over the same directory).    *)
(***************************************************************************)
Init ==
    /\ catalog = NoTables
    /\ catFile = NoTables
    /\ tables = NoCache
    /\ disk = NoDirs
    /\ last = Outcome(NoStatement, "none", "", NoResult)
    /\ hist = NoHist
    /\ NoUnits

WellTyped(schema, values) ==
    /\ Len(values) = Len(schema.Columns)
    /\ \A j \in 1..Len(values) :
          values[j].isNull \/ values[j].type = schema.Columns[j].Type

\* A panic ends the process; the next statement runs after a cold start.
Apply(stmt, ans) ==
    /\ catalog' = IF ans.outcome = "panic" THEN ans.catFile ELSE ans.catalog
    /\ catFile' = ans.catFile
    /\ tables' = IF ans.outcome = "panic" THEN NoCache ELSE ans.tables
    /\ disk' = ans.disk
    /\ last' = Outcome(stmt, ans.outcome, ans.err, ans.result)
    /\ UNCHANGED units

ExecuteCreateTable(stmt) ==
    \E ans \in {executeCreateTable(catalog, catFile, tables, disk, stmt)} :
        /\ Apply(stmt, ans)
        /\ hist' = IF ans.outcome = "ok"
                   THEN Put(hist, stmt.TableName, [rows |-> <<>>, clean |-> TRUE])
                   ELSE hist

ExecuteDropTable(stmt) ==
    \E ans \in {executeDropTable(catalog, catFile, tables, disk, stmt)} :
        /\ Apply(stmt, ans)
        /\ hist' = IF ans.outcome = "ok" THEN Remove(hist, stmt.TableName) ELSE hist

RowsBelowBound(t) ==
    \A got \in {getTable(tables, catalog, disk, t)} :
        IF got.err # "" THEN TRUE
        ELSE \A n \in DOMAIN got.table.Columns :
                got.table.Columns[n].rowCount < MaxRows

ExecuteInsert(stmt) ==
    /\ RowsBelowBound(stmt.TableName)
    /\ \E ans \in {executeInsert(catalog, catFile, tables, disk, stmt)},
          t \in {stmt.TableName} :
           /\ Apply(stmt, ans)
           /\ hist' = IF t \notin DOMAIN hist THEN hist
                      ELSE IF ans.outcome = "ok"
                      THEN [hist EXCEPT ![t] =
                              [rows |-> Append(@.rows,
                                    insertValues(ans.tables[t].Schema, stmt).values),
                               clean |-> @.clean
                                   /\ WellTyped(catalog[t],
                                        insertValues(ans.tables[t].Schema, stmt).values)]]
                      ELSE [hist EXCEPT ![t].clean = FALSE]

ExecuteSelect(stmt) ==
    \E got \in {getTable(tables, catalog, disk, stmt.TableName)} :
        \E rowCount \in (IF got.err # "" THEN {0} ELSE RowCount(got.table)) :
            \E ans \in {executeSelectStatement(catalog, catFile, tables, disk,
                                                stmt, rowCount)} :
                /\ Apply(stmt, ans)
                /\ hist' = hist

Restart ==
    /\ catalog' = catFile
    /\ tables' = NoCache
    /\ last' = Outcome(NoStatement, "restart", "", NoResult)
    /\ UNCHANGED <<catFile, disk, hist, units>>

Next ==
    \/ \E stmt \in CreateStatements : ExecuteCreateTable(stmt)
    \/ \E stmt \in DropStatements : ExecuteDropTable(stmt)
    \/ \E stmt \in InsertStatements : ExecuteInsert(stmt)
    \/ \E stmt \in SelectStatements : ExecuteSelect(stmt)
    \/ Restart

Spec == Init /\ [][Next]_vars

(***************************************************************************)
(* Queries over a loaded table: the database after CREATE TABLE t          *)
(* (a INT64, b STRING) and up to MaxQueryRows INSERTs, then SELECTs with   *)
(* WHERE comparisons, with DISTINCT / ORDER BY / OFFSET / LIMIT, and with  *)
(* ORDER BY over several keys and output names.                            *)
(***************************************************************************)
QuerySchema ==
    <<ColumnDefinition("a", "INT64", TRUE), ColumnDefinition("b", "STRING", TRUE)>>

QueryRowValues ==
    { <<Int1, StrX>>, <<Int1, NullLiteral>>, <<Int2, StrX>>, <<NullLiteral, StrX>> }

QueryRowLists == UNION {[1..n -> QueryRowValues] : n \in 0..MaxQueryRows}

\* What Execute answered for the last of: CREATE TABLE t, INSERT rows[1],
\* ..., INSERT rows[n].
RECURSIVE Loaded(_, _)
Loaded(rows, n) ==
    IF n = 0
    THEN executeCreateTable(NoTables, NoTables, NoCache, NoDirs,
                            CreateTableStatement("t", QuerySchema))
    ELSE \* the four fields of the answer to the statement before
         executeInsert(Loaded(rows, n - 1).catalog, Loaded(rows, n - 1).catFile,
                       Loaded(rows, n - 1).tables, Loaded(rows, n - 1).disk,
                       InsertStatement("t", <<>>, rows[n]))

CompareOps == {"=", "<>", "!=", "<", ">", "<=", ">="}

WhereQueries ==
    {SelectStatement("t", <<Wildcard>>, FALSE, <<BinaryExpression(lr[1], op, lr[2])>>,
                     <<>>, <<>>, <<>>) :
        op \in CompareOps,
        lr \in { <<Identifier("a"), NullLiteral>>, <<NullLiteral, Identifier("a")>> }}
    \cup
    {SelectStatement("t", <<Wildcard>>, FALSE,
                     <<BinaryExpression(Identifier("a"), op, Int1)>>, <<>>, <<>>, <<>>) :
        op \in {"=", "<"}}

SliceQueries ==
    {SelectStatement("t", <<Wildcard>>, FALSE, <<>>, <<>>, limit, offset) :
        limit \in {<<>>, <<1>>}, offset \in {<<>>, <<1>>, <<3>>}}
    \cup
    {SelectStatement("t", <<Wildcard>>, TRUE,
                     <<BinaryExpression(Identifier("a"), ">=", Int1)>>,
                     <<OrderByClause("a", TRUE)>>, limit, offset) :
        limit \in {<<0>>, <<1>>, <<5>>}, offset \in {<<0>>, <<1>>, <<3>>}}

OrderQueries ==
    {SelectStatement("t", <<Wildcard>>, FALSE, <<>>, orderBy, <<>>, <<>>) :
        orderBy \in { <<OrderByClause("a", FALSE)>>,
                      <<OrderByClause("a", TRUE)>>,
                      <<OrderByClause("b", FALSE), OrderByClause("a", TRUE)>>,
                      <<OrderByClause("c", FALSE)>>,
                      <<OrderByClause("c", FALSE), OrderByClause("a", TRUE)>> }}
    \cup
    { SelectStatement("t", <<SelectColumn(Identifier("b"), "a"), SelectColumn(Identifier("a"), "z")>>,
                      FALSE, <<>>, <<OrderByClause("a", FALSE)>>, <<>>, <<>>),
      SelectStatement("t", <<SelectColumn(Identifier("a"), "k"), SelectColumn(Identifier("b"), "k")>>,
                      FALSE, <<>>, <<OrderByClause("k", TRUE)>>, <<>>, <<>>),
      SelectStatement("t", <<SelectColumn(Identifier("b"), "")>>,
                      FALSE, <<>>, <<OrderByClause("a", FALSE)>>, <<>>, <<>>) }

InitQuery ==
    \E rows \in QueryRowLists :
        \E db \in {Loaded(rows, Len(rows))} :
            /\ catalog = db.catalog
            /\ catFile = db.catFile
            /\ tables = db.tables
            /\ disk = db.disk
            /\ last = Outcome(NoStatement, "none", "", NoResult)
            /\ hist = [t \in {"t"} |->
                         [rows |-> [i \in 1..Len(rows) |->
                                      insertValues(db.catalog["t"],
                                                   InsertStatement("t", <<>>, rows[i])).values],
                          clean |-> TRUE]]
            /\ NoUnits

NextQuery ==
    \/ \E stmt \in WhereQueries : ExecuteSelect(stmt)
    \/ \E stmt \in SliceQueries : ExecuteSelect(stmt)
    \/ \E stmt \in OrderQueries : ExecuteSelect(stmt)

SpecQuery == InitQuery /\ [][NextQuery]_vars

(***************************************************************************)
(* Properties of the statement handlers.                                   *)
(***************************************************************************)
IsSelectAll(stmt) ==
    /\ stmt.kind = "Select"
    /\ stmt.SelectColumns = <<Wildcard>>
    /\ ~stmt.Distinct
    /\ stmt.Where = <<>>
    /\ stmt.OrderBy = <<>>
    /\ stmt.Limit = <<>>
    /\ stmt.Offset = <<>>

\* C1: after N successful INSERTs of values of the declared types (or NULL)
\* into a table since its CREATE TABLE, SELECT * without clauses returns
\* exactly those N rows, in insertion order, columns in schema order.
C1_SelectReturnsInsertedRows ==
    LET t == last.stmt.TableName
    IN  (/\ IsSelectAll(last.stmt)
         /\ last.outcome = "ok"
         /\ t \in DOMAIN hist
         /\ hist[t].clean)
        => /\ last.result.Columns = ColumnNames(catalog[t])
           /\ last.result.Rows = hist[t].rows

\* C2: after a successful DROP TABLE t, t is absent from the Catalog and from
\* the table cache, and its table directory is gone, cached before or not.
C2_DropRemovesEverything ==
    LET t == last.stmt.TableName
    IN  (last.stmt.kind = "DropTable" /\ last.outcome = "ok")
        => /\ t \notin DOMAIN catalog
           /\ t \notin DOMAIN catFile
           /\ t \notin DOMAIN tables
           /\ t \notin DOMAIN disk

\* C3: CREATE TABLE on a name the Catalog already holds fails, and leaves
\* the Catalog, the cached Table and the stored rows as they were.
C3_DuplicateCreateFails ==
    [][(last'.stmt.kind = "CreateTable" /\ last'.stmt.TableName \in DOMAIN catalog)
       => /\ last'.outcome = "error"
          /\ last'.err = "table already exists"
          /\ catalog' = catalog
          /\ catFile' = catFile
          /\ tables' = tables
          /\ disk' = disk]_vars

C3_Witness ==
    /\ last.stmt.kind = "CreateTable"
    /\ last.err = "table already exists"
    /\ last.stmt.TableName \in DOMAIN tables
    /\ \E n \in DOMAIN tables[last.stmt.TableName].Columns :
          tables[last.stmt.TableName].Columns[n].rowCount > 0
    /\ catalog[last.stmt.TableName]
         # schemaFrom(NewTableSchema(last.stmt.TableName), last.stmt.Defs, 1)

\* The identifiers of an expression.
RECURSIVE IdentifiersOf(_)
IdentifiersOf(e) ==
    IF e.kind = "Identifier" THEN {e.name}
    ELSE UNION {IdentifiersOf(e.args[i]) : i \in 1..Len(e.args)}

NamedColumns(stmt) ==
    UNION {IdentifiersOf(stmt.SelectColumns[i].Expression[1]) :
             i \in {j \in 1..Len(stmt.SelectColumns) : ~stmt.SelectColumns[j].IsWildcard}}
    \cup (IF stmt.Where = <<>> THEN {} ELSE IdentifiersOf(stmt.Where[1]))

\* C4: a SELECT whose select list or WHERE names a column that the schema
\* does not have returns a column-not-found failure, never a result.
C4_UnknownColumnFails ==
    LET t == last.stmt.TableName
    IN  (/\ last.stmt.kind = "Select"
         /\ t \in DOMAIN catalog
         /\ ~hasAggregates(last.stmt.SelectColumns)
         /\ NamedColumns(last.stmt) \ SchemaNameSet(catalog[t]) # {})
        => /\ last.outcome = "error"
           /\ last.err = "column not found"

\* The literal value of an INSERT value expression.
LiteralValue(e) == evaluateExpression(e, FALSE, <<>>, <<>>).val

\* C5: INSERT with an explicit column list stores one row in which every
\* listed column holds the value given at the same position and every
\* other column holds NULL; a listed name that is no schema column makes
\* the INSERT fail without storing a row.
C5_ListedInsertStoresRow ==
    [][(/\ last'.stmt.kind = "Insert"
        /\ Len(last'.stmt.Columns) > 0
        /\ last'.stmt.TableName \in DOMAIN catalog)
       => LET stmt == last'.stmt
              t == stmt.TableName
              schema == catalog[t]
              pre == getTable(tables, catalog, disk, t).table
              listed == {stmt.Columns[i] : i \in 1..Len(stmt.Columns)}
          IN  IF listed \subseteq SchemaNameSet(schema)
              THEN /\ last'.outcome = "ok"
                   /\ t \in DOMAIN tables'
                   /\ \A n \in SchemaNameSet(schema) :
                         tables'[t].Columns[n].rowCount = pre.Columns[n].rowCount + 1
                   /\ \A i \in 1..Len(stmt.Columns) :
                         /\ i <= Len(stmt.Values)
                         /\ GetValue(tables'[t].Columns[stmt.Columns[i]],
                                     pre.Columns[stmt.Columns[i]].rowCount)
                              = LiteralValue(stmt.Values[i])
                   /\ \A n \in SchemaNameSet(schema) \ listed :
                         GetValue(tables'[t].Columns[n], pre.Columns[n].rowCount)
                           = NewNullValue
                   /\ disk'[t].cols = tables'[t].Columns
              ELSE /\ last'.outcome = "error"
                   /\ last'.err = "column not found"
                   /\ disk' = disk
                   /\ tables'[t] = pre]_vars

\* C6: INSERT without a column list whose number of values is not the
\* schema's column count fails with a column-count mismatch and appends
\* nothing to any column, in memory or on disk.
C6_CountMismatchAppendsNothing ==
    [][(/\ last'.stmt.kind = "Insert"
        /\ Len(last'.stmt.Columns) = 0
        /\ last'.stmt.TableName \in DOMAIN catalog
        /\ Len(last'.stmt.Values) # Len(catalog[last'.stmt.TableName].Columns))
       => /\ last'.outcome = "error"
          /\ last'.err = "column count mismatch"
          /\ disk' = disk
          /\ catalog' = catalog
          /\ tables' = getTable(tables, catalog, disk, last'.stmt.TableName).tables]_vars

C6_Witness ==
    /\ last.stmt.kind = "Insert"
    /\ Len(last.stmt.Columns) = 0
    /\ last.err = "column count mismatch"
    /\ last.stmt.TableName \in DOMAIN tables
    /\ Len(last.stmt.Values) < Len(tables[last.stmt.TableName].Schema.Columns)

\* C7: INSERT, SELECT and DROP TABLE on a table the Catalog does not hold
\* fail and leave the Catalog, the table cache and the data directory as
\* they were.
C7_AbsentTableFails ==
    [][(/\ last'.stmt.kind \in {"Insert", "Select", "DropTable"}
        /\ last'.stmt.TableName \notin DOMAIN catalog)
       => /\ last'.outcome = "error"
          /\ last'.err = "table does not exist"
          /\ catalog' = catalog
          /\ catFile' = catFile
          /\ tables' = tables
          /\ disk' = disk]_vars

\* The table is absent from the Catalog while its directory is still there.
C7_Witness ==
    /\ last.stmt.kind = "Select"
    /\ last.err = "table does not exist"
    /\ last.stmt.TableName \in DOMAIN disk

\* Whether a WHERE operand is NULL on a scanned row: the NULL literal, a
\* column holding NULL, or a name that is no column.
OperandIsNull(e, columns, row) ==
    CASE e.kind = "NullLiteral" -> TRUE
      [] e.kind = "Identifier" ->
            \A i \in 1..Len(columns) :
                (columns[i] = e.name /\ \A j \in 1..(i - 1) : columns[j] # e.name)
                    => row[i].isNull
      [] OTHER -> FALSE

\* C8: in WHERE, a comparison (=, <>, !=, <, >, <=, >=) with a NULL operand
\* on either side is false for every row: no selected row has a NULL
\* operand, and a comparison against the NULL literal selects no row.
C8_NullComparisonIsFalse ==
    [][(/\ last'.stmt.kind = "Select"
        /\ last'.outcome = "ok"
        /\ last'.stmt.SelectColumns = <<Wildcard>>
        /\ last'.stmt.Where # <<>>
        /\ last'.stmt.Where[1].kind = "BinaryExpression"
        /\ last'.stmt.Where[1].name \in CompareOps)
       => LET e == last'.stmt.Where[1]
              rows == last'.result.Rows
              columns == last'.result.Columns
          IN  /\ \A i \in 1..Len(rows) :
                    /\ ~OperandIsNull(e.args[1], columns, rows[i])
                    /\ ~OperandIsNull(e.args[2], columns, rows[i])
              /\ (NullLiteral \in {e.args[1], e.args[2]} => rows = <<>>)]_vars

\* WHERE a <> NULL (or a != NULL) has run on a table that holds a row with
\* a NULL and a row without, and selected nothing.
C8_Witness ==
    /\ last.stmt.kind = "Select"
    /\ last.outcome = "ok"
    /\ last.stmt.Where # <<>>
    /\ last.stmt.Where[1] \in {BinaryExpression(Identifier("a"), op, NullLiteral) :
                                 op \in {"<>", "!="}}
    /\ last.result.Rows = <<>>
    /\ \E i, j \in 1..Len(hist["t"].rows) :
          hist["t"].rows[i][1].isNull /\ ~hist["t"].rows[j][1].isNull

\* The output of a projection SELECT after filter, project and DISTINCT,
\* in this order, before ORDER BY, OFFSET and LIMIT.
ProducedRows(stmt, table) ==
    distinctStep(stmt,
        Result(selectColumnsFrom(table.Schema, stmt.SelectColumns, 1),
               filterProjectFrom(table.Schema, stmt.Where,
                                 selectExpressionsFrom(table.Schema, stmt.SelectColumns, 1),
                                 Scan(table, CHOOSE n \in RowCount(table) : TRUE), 1),
               FALSE))

\* The rows after ORDER BY has then been applied.
OrderedRows(stmt, table) == orderByStep(stmt, ProducedRows(stmt, table)).Rows

Min(x, y) == IF x < y THEN x ELSE y

\* C9: on the projection path, with k rows after filter, project, DISTINCT
\* and ORDER BY, OFFSET o and LIMIT n (one of them given, >= 0) return the
\* rows at positions o .. min(o+n, k)-1 of those k rows: none when o >= k,
\* all that remain when n exceeds what is left.
C9_OffsetThenLimit ==
    [][(/\ last'.stmt.kind = "Select"
        /\ last'.stmt.TableName \in DOMAIN tables
        /\ ~hasAggregates(last'.stmt.SelectColumns)
        /\ <<last'.stmt.Offset, last'.stmt.Limit>> # <<<<>>, <<>>>>
        /\ (last'.stmt.Offset # <<>> => last'.stmt.Offset[1] >= 0)
        /\ (last'.stmt.Limit # <<>> => last'.stmt.Limit[1] >= 0))
       => \A ordered \in {OrderedRows(last'.stmt, tables[last'.stmt.TableName])} :
             LET stmt == last'.stmt
                 k == Len(ordered)
                 o == IF stmt.Offset = <<>> THEN 0 ELSE stmt.Offset[1]
                 hi == IF stmt.Limit = <<>> THEN k ELSE Min(o + stmt.Limit[1], k)
             IN  /\ last'.outcome = "ok"
                 /\ Len(last'.result.Rows) = (IF hi > o THEN hi - o ELSE 0)
                 /\ \A i \in 1..Len(last'.result.Rows) :
                       last'.result.Rows[i] = ordered[o + i]]_vars

\* A SELECT with WHERE, DISTINCT, ORDER BY, OFFSET 1 and LIMIT 1 has run on
\* three ordered rows and returned the second of them.
C9_Witness ==
    /\ last.stmt.kind = "Select"
    /\ last.outcome = "ok"
    /\ last.stmt.Distinct
    /\ last.stmt.Where # <<>>
    /\ last.stmt.OrderBy # <<>>
    /\ last.stmt.Offset = <<1>>
    /\ last.stmt.Limit = <<1>>
    /\ Len(OrderedRows(last.stmt, tables["t"])) = 3
    /\ last.result.Rows = <<OrderedRows(last.stmt, tables["t"])[2]>>
    /\ OrderedRows(last.stmt, tables["t"]) # ProducedRows(last.stmt, tables["t"]).Rows

\* Row x sorts strictly before row y: at the first requested key that is an
\* output column and on which they differ under Value.Compare, x is the
\* smaller one for ASC, the larger one for DESC.
SortsBefore(columns, orderBy, x, y) ==
    \E p \in 1..Len(orderBy) :
        /\ colIndex(columns, orderBy[p].Column) # <<>>
        /\ IF orderBy[p].Desc
           THEN Compare(x[colIndex(columns, orderBy[p].Column)[1]],
                        y[colIndex(columns, orderBy[p].Column)[1]]) > 0
           ELSE Compare(x[colIndex(columns, orderBy[p].Column)[1]],
                        y[colIndex(columns, orderBy[p].Column)[1]]) < 0
        /\ \A q \in 1..(p - 1) :
              colIndex(columns, orderBy[q].Column) # <<>>
                  => Compare(x[colIndex(columns, orderBy[q].Column)[1]],
                             y[colIndex(columns, orderBy[q].Column)[1]]) = 0

\* output is input rearranged by a permutation that puts rows in key order
\* and keeps rows equal on all keys in their input order.
StableSorted(columns, orderBy, input, output) ==
    /\ Len(output) = Len(input)
    /\ \E pi \in Permutations(1..Len(input)) :
          /\ \A i \in 1..Len(input) : output[i] = input[pi[i]]
          /\ \A i, j \in 1..Len(input) :
                i < j => \/ SortsBefore(columns, orderBy, output[i], output[j])
                         \/ /\ ~SortsBefore(columns, orderBy, output[j], output[i])
                            /\ pi[i] < pi[j]

\* NULL keys come first for ASC and last for DESC, on the first requested
\* key that is an output column.
NullsAtTheEnd(columns, orderBy, output) ==
    \A p \in 1..Len(orderBy) :
        (/\ colIndex(columns, orderBy[p].Column) # <<>>
         /\ \A q \in 1..(p - 1) : colIndex(columns, orderBy[q].Column) = <<>>)
        => \A i, j \in 1..Len(output) :
              (/\ i < j
               /\ output[i][colIndex(columns, orderBy[p].Column)[1]].isNull
                    # output[j][colIndex(columns, orderBy[p].Column)[1]].isNull)
              => (output[i][colIndex(columns, orderBy[p].Column)[1]].isNull
                    <=> ~orderBy[p].Desc)

\* C10: ORDER BY returns a permutation of the produced output rows, sorted
\* by the requested keys resolved against the output column names, left to
\* right, each in its own direction under Value.Compare (NULL first for
\* ASC, last for DESC), rows equal on all keys staying in scan order.
C10_OrderByStableSort ==
    [][(/\ last'.stmt.kind = "Select"
        /\ last'.outcome = "ok"
        /\ last'.stmt.TableName \in DOMAIN tables
        /\ ~hasAggregates(last'.stmt.SelectColumns)
        /\ last'.stmt.OrderBy # <<>>
        /\ last'.stmt.Offset = <<>>
        /\ last'.stmt.Limit = <<>>)
       => \A produced \in {ProducedRows(last'.stmt, tables[last'.stmt.TableName])} :
             /\ last'.result.Columns = produced.Columns
             /\ StableSorted(produced.Columns, last'.stmt.OrderBy,
                             produced.Rows, last'.result.Rows)
             /\ NullsAtTheEnd(produced.Columns, last'.stmt.OrderBy,
                              last'.result.Rows)]_vars

\* ORDER BY a has moved a row with a NULL key to the front and has kept two
\* different rows with the same key in their scan order.
C10_Witness ==
    /\ last.stmt.kind = "Select"
    /\ last.outcome = "ok"
    /\ last.stmt.OrderBy = <<OrderByClause("a", FALSE)>>
    /\ last.stmt.SelectColumns = <<Wildcard>>
    /\ last.stmt.Limit = <<>> /\ last.stmt.Offset = <<>>
    /\ Len(last.result.Rows) = 3
    /\ last.result.Rows[1][1].isNull
    /\ last.result.Rows # hist["t"].rows
    /\ Compare(last.result.Rows[2][1], last.result.Rows[3][1]) = 0
    /\ last.result.Rows[2] # last.result.Rows[3]

(***************************************************************************)
(* Queries with DISTINCT over a loaded table t (b STRING, f FLOAT64) whose *)
(* rows include the string 'NULL' next to NULL and two floats that differ  *)
(* below the sixth decimal.                                                *)
(***************************************************************************)
MaxDistinctRows == 3

\* What Execute answered for the last of: CREATE TABLE t with the schema,
\* INSERT rows[1], ..., INSERT rows[n].
RECURSIVE LoadedWith(_, _, _)
LoadedWith(schema, rows, n) ==
    IF n = 0
    THEN executeCreateTable(NoTables, NoTables, NoCache, NoDirs,
                            CreateTableStatement("t", schema))
    ELSE executeInsert(LoadedWith(schema, rows, n - 1).catalog,
                       LoadedWith(schema, rows, n - 1).catFile,
                       LoadedWith(schema, rows, n - 1).tables,
                       LoadedWith(schema, rows, n - 1).disk,
                       InsertStatement("t", <<>>, rows[n]))

\* The state after the statements of LoadedWith, nothing queried yet.
InitLoaded(schema, rows) ==
    \E db \in {LoadedWith(schema, rows, Len(rows))} :
        /\ catalog = db.catalog
        /\ catFile = db.catFile
        /\ tables = db.tables
        /\ disk = db.disk
        /\ last = Outcome(NoStatement, "none", "", NoResult)
        /\ hist = [t \in {"t"} |->
                     [rows |-> [i \in 1..Len(rows) |->
                                  insertValues(db.catalog["t"],
                                               InsertStatement("t", <<>>, rows[i])).values],
                      clean |-> TRUE]]
        /\ NoUnits

DistinctSchema ==
    <<ColumnDefinition("b", "STRING", TRUE), ColumnDefinition("f", "FLOAT64", TRUE)>>

StrNULL == StringLiteral(<<78, 85, 76, 76>>)
Float0 == FloatLiteral(<<0, 1>>)
FloatTiny == FloatLiteral(<<1, 10000000>>)

DistinctRowValues ==
    { <<StrNULL, Float0>>, <<NullLiteral, Float0>>, <<StrX, Float0>>, <<StrX, FloatTiny>> }

DistinctRowLists == UNION {[1..n -> DistinctRowValues] : n \in 0..MaxDistinctRows}

DistinctQueries ==
    {SelectStatement("t", cols, TRUE, <<>>, <<>>, <<>>, <<>>) :
        cols \in { <<Wildcard>>,
                   <<SelectColumn(Identifier("b"), "")>>,
                   <<SelectColumn(Identifier("f"), "")>>,
                   <<SelectColumn(Identifier("f"), ""), SelectColumn(Identifier("b"), "")>> }}
    \cup
    {SelectStatement("t", <<Wildcard>>, TRUE,
                     <<BinaryExpression(Identifier("b"), "=", StrX)>>, <<>>, <<>>, <<>>)}

InitDistinct == \E rows \in DistinctRowLists : InitLoaded(DistinctSchema, rows)

NextDistinct == \E stmt \in DistinctQueries : ExecuteSelect(stmt)

SpecDistinct == InitDistinct /\ [][NextDistinct]_vars

\* The rows of a projection SELECT after filter and project, before DISTINCT.
ProjectedRows(stmt, table) ==
    filterProjectFrom(table.Schema, stmt.Where,
                      selectExpressionsFrom(table.Schema, stmt.SelectColumns, 1),
                      Scan(table, CHOOSE n \in RowCount(table) : TRUE), 1)

\* The position of the first occurrence of row in rows.
FirstOccurrence(rows, row) ==
    CHOOSE i \in 1..Len(rows) : rows[i] = row /\ \A j \in 1..(i - 1) : rows[j] # row

IsDistinctOnly(stmt) ==
    /\ stmt.kind = "Select"
    /\ stmt.Distinct
    /\ ~hasAggregates(stmt.SelectColumns)
    /\ stmt.OrderBy = <<>>
    /\ stmt.Limit = <<>>
    /\ stmt.Offset = <<>>

\* C11: DISTINCT is idempotent and order-preserving: applying it to its own
\* output changes nothing, and the surviving rows are input rows that
\* appear in the order of their first occurrence in the input.
C11_DistinctIdempotentInOrder ==
    [][(IsDistinctOnly(last'.stmt) /\ last'.outcome = "ok")
       => \A input \in {ProjectedRows(last'.stmt, tables[last'.stmt.TableName])} :
             /\ applyDistinct(last'.result.Rows) = last'.result.Rows
             /\ \A i \in 1..Len(last'.result.Rows) :
                   \E j \in 1..Len(input) : input[j] = last'.result.Rows[i]
             /\ \A i, j \in 1..Len(last'.result.Rows) :
                   i < j => FirstOccurrence(input, last'.result.Rows[i])
                              < FirstOccurrence(input, last'.result.Rows[j])]_vars

\* SELECT DISTINCT has dropped a repeated row and has kept two rows.
C11_Witness ==
    /\ IsDistinctOnly(last.stmt)
    /\ last.outcome = "ok"
    /\ Len(last.result.Rows) = 2
    /\ Len(ProjectedRows(last.stmt, tables["t"])) = 3
    /\ ProjectedRows(last.stmt, tables["t"])[1] = ProjectedRows(last.stmt, tables["t"])[3]

\* C12: DISTINCT removes a row only if an earlier output row is identical
\* to it in every position: every input row is still among the output rows.
C12_DistinctKeepsDifferentRows ==
    [][(IsDistinctOnly(last'.stmt) /\ last'.outcome = "ok")
       => \A input \in {ProjectedRows(last'.stmt, tables[last'.stmt.TableName])} :
             \A j \in 1..Len(input) :
                \E i \in 1..Len(last'.result.Rows) : last'.result.Rows[i] = input[j]]_vars

(***************************************************************************)
(* Aggregate queries over a loaded table t (a INT64, b STRING).            *)
(***************************************************************************)
MaxAggregateRows == 3

AggregateRowLists == UNION {[1..n -> QueryRowValues] : n \in 0..MaxAggregateRows}

Star == Identifier("*")

AllFive ==
    <<SelectColumn(FunctionCall("COUNT", <<Star>>), ""),
      SelectColumn(FunctionCall("SUM", <<Identifier("a")>>), ""),
      SelectColumn(FunctionCall("AVG", <<Identifier("a")>>), ""),
      SelectColumn(FunctionCall("MIN", <<Identifier("a")>>), ""),
      SelectColumn(FunctionCall("MAX", <<Identifier("a")>>), "")>>

AggregateQueries ==
    {SelectStatement("t", AllFive, FALSE, where, <<>>, <<>>, <<>>) :
        where \in { <<>>,
                    <<BinaryExpression(Identifier("a"), ">", Int1)>>,
                    <<BinaryExpression(Identifier("a"), ">", Int2)>>,
                    <<BinaryExpression(Identifier("b"), "=", StrX)>> }}
    \cup
    { SelectStatement("t",
                      <<SelectColumn(FunctionCall("MIN", <<Identifier("b")>>), ""),
                        SelectColumn(FunctionCall("MAX", <<Identifier("b")>>), "hi"),
                        SelectColumn(FunctionCall("SUM", <<Identifier("b")>>), ""),
                        SelectColumn(FunctionCall("COUNT", <<Identifier("b")>>), "")>>,
                      FALSE, <<>>, <<>>, <<>>, <<>>),
      SelectStatement("t",
                      <<SelectColumn(Identifier("a"), ""),
                        SelectColumn(FunctionCall("COUNT", <<Star>>), "n")>>,
                      TRUE, <<>>, <<OrderByClause("a", TRUE)>>, <<0>>, <<1>>),
      SelectStatement("t",
                      <<SelectColumn(FunctionCall("AVG",
                            <<BinaryExpression(Identifier("a"), "+", Int1)>>), "")>>,
                      FALSE, <<BinaryExpression(Identifier("a"), ">=", Int1)>>,
                      <<>>, <<>>, <<5>>) }

InitAggregate == \E rows \in AggregateRowLists : InitLoaded(QuerySchema, rows)

NextAggregate == \E stmt \in AggregateQueries : ExecuteSelect(stmt)

SpecAggregate == InitAggregate /\ [][NextAggregate]_vars

\* The scanned rows of the table that satisfy WHERE.
QualifyingRows(stmt, table) ==
    matchingFrom(table.Schema, stmt.Where,
                 Scan(table, CHOOSE n \in RowCount(table) : TRUE), 1)

IsAggregateCall(col) == ~col.IsWildcard /\ col.Expression[1].kind = "FunctionCall"

\* C13: when no row qualifies, an aggregate SELECT returns NULL for MIN,
\* MAX, AVG and SUM and the Int64 value 0 for COUNT.
C13_AggregatesOverNothing ==
    [][(/\ last'.stmt.kind = "Select"
        /\ last'.outcome = "ok"
        /\ hasAggregates(last'.stmt.SelectColumns)
        /\ QualifyingRows(last'.stmt, tables[last'.stmt.TableName]) = <<>>)
       => /\ Len(last'.result.Rows) = 1
          /\ Len(last'.result.Rows[1]) = Len(last'.stmt.SelectColumns)
          /\ \A k \in 1..Len(last'.stmt.SelectColumns) :
                IsAggregateCall(last'.stmt.SelectColumns[k])
                => IF last'.stmt.SelectColumns[k].Expression[1].name = "COUNT"
                   THEN last'.result.Rows[1][k] = NewInt64Value(0)
                   ELSE last'.result.Rows[1][k] = NewNullValue]_vars

\* The five aggregates have been asked with a WHERE that no row of a
\* non-empty table satisfies.
C13_Witness ==
    /\ last.stmt.kind = "Select"
    /\ last.outcome = "ok"
    /\ last.stmt.SelectColumns = AllFive
    /\ last.stmt.Where # <<>>
    /\ Len(hist["t"].rows) > 1
    /\ QualifyingRows(last.stmt, tables["t"]) = <<>>
    /\ last.result.Rows = <<<<NewInt64Value(0), NewNullValue, NewNullValue,
                             NewNullValue, NewNullValue>>>>

\* The value of the first argument of fn on every row, in row order.
ArgumentValues(fn, schema, rows) ==
    [i \in 1..Len(rows) |->
        evaluateExpression(fn.args[1], TRUE, ColumnNames(schema), rows[i]).val]

RECURSIVE NumericSumFrom(_, _)
NumericSumFrom(vals, i) ==
    IF i > Len(vals) THEN <<0, 1>>
    ELSE IF vals[i].isNull \/ vals[i].type \notin {TypeInt64, TypeFloat64}
    THEN NumericSumFrom(vals, i + 1)
    ELSE RatAdd(IF vals[i].type = TypeInt64 THEN <<vals[i].i, 1>> ELSE vals[i].f,
                NumericSumFrom(vals, i + 1))

NumericCount(vals) ==
    Cardinality({i \in 1..Len(vals) :
                    ~vals[i].isNull /\ vals[i].type \in {TypeInt64, TypeFloat64}})

\* What the claim says the call fn returns over the qualifying rows.
ExpectedAggregate(fn, vals, n) ==
    CASE fn.name = "COUNT" -> NewInt64Value(n)
      [] fn.name = "SUM" ->
            IF NumericCount(vals) = 0 THEN NewNullValue
            ELSE NewFloat64Value(NumericSumFrom(vals, 1))
      [] fn.name = "AVG" ->
            IF NumericCount(vals) = 0 THEN NewNullValue
            ELSE NewFloat64Value(Rat(NumericSumFrom(vals, 1)[1],
                                     NumericSumFrom(vals, 1)[2] * NumericCount(vals)))
      [] fn.name = "MIN" ->
            IF \A i \in 1..Len(vals) : vals[i].isNull THEN NewNullValue
            ELSE CHOOSE v \in {vals[i] : i \in 1..Len(vals)} :
                    ~v.isNull /\ \A j \in 1..Len(vals) :
                                    vals[j].isNull \/ Compare(v, vals[j]) <= 0
      [] OTHER ->
            IF \A i \in 1..Len(vals) : vals[i].isNull THEN NewNullValue
            ELSE CHOOSE v \in {vals[i] : i \in 1..Len(vals)} :
                    ~v.isNull /\ \A j \in 1..Len(vals) :
                                    vals[j].isNull \/ Compare(v, vals[j]) >= 0

\* C14: a SELECT with a top-level aggregate call returns exactly one row,
\* whatever DISTINCT, ORDER BY, LIMIT or OFFSET say, computed over the rows
\* that satisfy WHERE: COUNT is their number, SUM and AVG are the Float64
\* sum and mean of the non-NULL numeric argument values, MIN and MAX the
\* extremes of the non-NULL argument values under Value.Compare.
C14_AggregateRow ==
    [][(/\ last'.stmt.kind = "Select"
        /\ last'.stmt.TableName \in DOMAIN tables
        /\ hasAggregates(last'.stmt.SelectColumns))
       => \A rows \in {QualifyingRows(last'.stmt, tables[last'.stmt.TableName])} :
             /\ last'.outcome = "ok"
             /\ Len(last'.result.Rows) = 1
             /\ Len(last'.result.Rows[1]) = Len(last'.stmt.SelectColumns)
             /\ \A k \in 1..Len(last'.stmt.SelectColumns) :
                   IsAggregateCall(last'.stmt.SelectColumns[k])
                   => last'.result.Rows[1][k] =
                        ExpectedAggregate(
                            last'.stmt.SelectColumns[k].Expression[1],
                            ArgumentValues(last'.stmt.SelectColumns[k].Expression[1],
                                           tables[last'.stmt.TableName].Schema, rows),
                            Len(rows))]_vars

\* The five aggregates have been computed over the two rows of three that
\* satisfy WHERE, one of the two with a NULL argument.
C14_Witness ==
    /\ last.stmt.kind = "Select"
    /\ last.outcome = "ok"
    /\ last.stmt.SelectColumns = AllFive
    /\ last.stmt.Where # <<>>
    /\ Len(hist["t"].rows) = 3
    /\ last.result.Rows = <<<<NewInt64Value(2), NewFloat64Value(<<2, 1>>),
                             NewFloat64Value(<<2, 1>>), NewInt64Value(2),
                             NewInt64Value(2)>>>>

(***************************************************************************)
(* Writes that fail.  os.WriteFile and os.MkdirAll return an error when    *)
(* the disk is full or the data directory cannot be written; the handlers  *)
(* of CREATE TABLE and DROP TABLE then take their error branches.  A       *)
(* failed write leaves the file as it was.                                 *)
(***************************************************************************)
\* Catalog.RegisterTable, save() failing: the new entry is deleted again.
RegisterTableFailing(cat, file, schema) ==
    IF schema.Name \in DOMAIN cat
    THEN [tables |-> cat, file |-> file, err |-> TRUE]
    ELSE [tables |-> Remove(Put(cat, schema.Name, schema), schema.Name),
          file |-> file, err |-> TRUE]

\* Catalog.DropTable, save() failing: the entry stays deleted.
DropTableFailing(cat, file, name) ==
    IF name \notin DOMAIN cat
    THEN [tables |-> cat, file |-> file, err |-> TRUE]
    ELSE [tables |-> Remove(cat, name), file |-> file, err |-> TRUE]

\* storage.CreateTable failing: the directories afterwards.  "mkdir" is
\* MkdirAll failing, "meta" is saveMetadata failing in the directory made.
CreateTableFailing(dirs, schema, fault) ==
    IF fault = "mkdir" \/ schema.Name \in DOMAIN dirs THEN dirs
    ELSE Put(dirs, schema.Name, [meta |-> NoMeta, cols |-> NoColumns])

CreateFaults ==
    {"none", "register", "mkdir", "meta", "mkdir, rollback", "meta, rollback"}

\* executeCreateTable once RegisterTable has succeeded and storage.CreateTable
\* has failed: back is what the DropTable that takes the entry back did, and
\* its error is dropped.
createFailed(back, cache, dirs, schema, fault) ==
    Answer("error", "failed to create table", back.tables, back.file, cache,
           CreateTableFailing(dirs, schema,
                              IF fault \in {"mkdir", "mkdir, rollback"}
                              THEN "mkdir" ELSE "meta"),
           NoResult)

rollback(reg, name, fault) ==
    IF fault \in {"mkdir, rollback", "meta, rollback"}
    THEN DropTableFailing(reg.tables, reg.file, name)
    ELSE DropTable(reg.tables, reg.file, name)

executeCreateTableFaulty(cat, file, cache, dirs, stmt, schema, fault) ==
    IF fault = "none" \/ TableExists(cat, stmt.TableName)
    THEN executeCreateTable(cat, file, cache, dirs, stmt)
    ELSE IF fault = "register"
    THEN Answer("error", "failed to save catalog",
                RegisterTableFailing(cat, file, schema).tables,
                RegisterTableFailing(cat, file, schema).file, cache, dirs, NoResult)
    ELSE createFailed(rollback(RegisterTable(cat, file, schema), stmt.TableName, fault),
                      cache, dirs, schema, fault)

DropFaults == {"none", "remove", "save"}

\* "remove" is os.RemoveAll failing in Table.Drop, "save" is the catalog
\* write failing in Catalog.DropTable.
executeDropTableFaulty(cat, file, cache, dirs, stmt, fault) ==
    IF fault = "none" \/ ~TableExists(cat, stmt.TableName)
    THEN executeDropTable(cat, file, cache, dirs, stmt)
    ELSE IF fault = "remove"
    THEN IF stmt.TableName \in DOMAIN cache
         THEN Answer("error", "failed to drop table", cat, file, cache, dirs, NoResult)
         ELSE executeDropTable(cat, file, cache, dirs, stmt)
    ELSE Answer("error", "failed to save catalog",
                DropTableFailing(cat, file, stmt.TableName).tables,
                DropTableFailing(cat, file, stmt.TableName).file,
                Remove(cache, stmt.TableName),
                IF stmt.TableName \in DOMAIN cache
                THEN Remove(dirs, stmt.TableName) ELSE dirs,
                NoResult)

ExecuteCreateTableFaulty(stmt) ==
    \E fault \in CreateFaults :
        \E ans \in {executeCreateTableFaulty(catalog, catFile, tables, disk, stmt,
                        schemaFrom(NewTableSchema(stmt.TableName), stmt.Defs, 1),
                        fault)} :
            /\ Apply(stmt, ans)
            /\ hist' = IF ans.outcome = "ok"
                       THEN Put(hist, stmt.TableName, [rows |-> <<>>, clean |-> TRUE])
                       ELSE hist

ExecuteDropTableFaulty(stmt) ==
    \E fault \in DropFaults :
        \E ans \in {executeDropTableFaulty(catalog, catFile, tables, disk, stmt, fault)} :
            /\ Apply(stmt, ans)
            /\ hist' = IF ans.outcome = "ok" THEN Remove(hist, stmt.TableName) ELSE hist

NextFaults ==
    \/ \E stmt \in CreateStatements : ExecuteCreateTableFaulty(stmt)
    \/ \E stmt \in DropStatements : ExecuteDropTableFaulty(stmt)
    \/ \E stmt \in InsertStatements : ExecuteInsert(stmt)
    \/ \E stmt \in SelectStatements : ExecuteSelect(stmt)
    \/ Restart

SpecFaults == Init /\ [][NextFaults]_vars

\* C15: after a statement that returns an execution failure, write failures
\* during CREATE TABLE and DROP TABLE included, every table registered in
\* the Catalog, in memory and in the persisted document, has a directory
\* that LoadTable can load.
C15_RegisteredTablesLoadable ==
    last.outcome = "error"
        => \A t \in DOMAIN catalog \cap DOMAIN catFile : Loadable(disk, t)

\* What SELECT * FROM t can answer from the given Catalog and table cache
\* over the data directory: one answer per value Table.RowCount can give.
SelectAllAnswers(cat, cache, dirs, t) ==
    UNION {{[outcome |-> ans.outcome, err |-> ans.err, result |-> ans.result] :
              ans \in {executeSelectStatement(cat, cat, cache, dirs, SelectAll(t),
                                              rowCount)}} :
           rowCount \in (IF getTable(cache, cat, dirs, t).err # "" THEN {0}
                         ELSE RowCount(getTable(cache, cat, dirs, t).table))}

\* C16: after a successful statement, closing the process and constructing a
\* new Catalog and Executor over the same data directory yields for every
\* table the same schema and the same rows to SELECT * FROM t.
C16_RestartKeepsTables ==
    last.outcome = "ok"
        => /\ catFile = catalog
           /\ \A t \in DOMAIN catalog :
                 SelectAllAnswers(catFile, NoCache, disk, t)
                     = SelectAllAnswers(catalog, tables, disk, t)

(***************************************************************************)
(* The column file in bytes.  In memory a ColumnFile holds the bytes that  *)
(* AppendValue encoded; Save writes a header and the two byte slices, and  *)
(* LoadColumnFile reads them back.  A column in bytes is                   *)
(* [dataType, nullMask, data, rowCount] with data a sequence of bytes.     *)
(***************************************************************************)
MaxColumnRows == 2

RECURSIVE TwoTo(_)
TwoTo(n) == IF n = 0 THEN 1 ELSE 2 * TwoTo(n - 1)

\* floor(log2 n) for n >= 1
RECURSIVE Log2(_)
Log2(n) == IF n <= 1 THEN 0 ELSE 1 + Log2(n \div 2)

\* binary.LittleEndian.PutUint64 / PutUint32 / binary.Write of an unsigned
\* integer: the k low bytes of n, low byte first.  uint64(n) of a negative
\* int64 is its two's complement.
RECURSIVE LittleEndian(_, _)
LittleEndian(n, k) ==
    IF k = 0 THEN <<>> ELSE <<n % 256>> \o LittleEndian(n \div 256, k - 1)

\* binary.LittleEndian.Uint64 / Uint32 / binary.Read of an unsigned integer.
RECURSIVE Uint(_)
Uint(bytes) == IF bytes = <<>> THEN 0 ELSE bytes[1] + 256 * Uint(Tail(bytes))

\* int64(binary.LittleEndian.Uint64(b)): the sign bit is the top bit of the
\* last byte.
Int64Of(bytes) ==
    IF bytes[8] >= 128
    THEN -(Uint([k \in 1..8 |-> 255 - bytes[k]]) + 1)
    ELSE Uint(bytes)

\* The k binary digits of n, high digit first.
Binary(n, k) == [j \in 1..k |-> (n \div TwoTo(k - j)) % 2]

\* The number with the given binary digits, high digit first.
RECURSIVE FromBinary(_)
FromBinary(bits) ==
    IF bits = <<>> THEN 0
    ELSE 2 * FromBinary(SubSeq(bits, 1, Len(bits) - 1)) + bits[Len(bits)]

\* math.Float64bits of the number a * 2^(-d), a > 0: sign, 11 digits of the
\* biased exponent, 52 digits of the fraction, for a normal number.
floatBits(sign, a, d) ==
    <<sign>> \o Binary(Log2(a) - d + 1023, 11)
             \o Binary(a - TwoTo(Log2(a)), Log2(a))
             \o [j \in 1..(52 - Log2(a)) |-> 0]

\* The floats of the model are 0 and the numbers num / 2^d.
Float64bits(f) ==
    IF f[1] = 0 THEN [j \in 1..64 |-> 0]
    ELSE floatBits(IF f[1] < 0 THEN 1 ELSE 0, Abs(f[1]), Log2(f[2]))

\* The 8 bytes of 64 binary digits, low byte first.
BytesOfBits(bits) ==
    [k \in 1..8 |-> FromBinary(SubSeq(bits, 64 - 8 * k + 1, 64 - 8 * k + 8))]

BitsOfBytes(bytes) ==
    [j \in 1..64 |-> (bytes[8 - ((j - 1) \div 8)] \div TwoTo(7 - ((j - 1) % 8))) % 2]

\* The length of digits without its trailing zeros.
RECURSIVE Significant(_)
Significant(digits) ==
    IF digits = <<>> \/ digits[Len(digits)] = 1 THEN Len(digits)
    ELSE Significant(SubSeq(digits, 1, Len(digits) - 1))

\* (-1)^sign * m * 2^e
scaled(sign, m, e) ==
    IF e >= 0
    THEN Rat((IF sign = 1 THEN -1 ELSE 1) * m * TwoTo(e), 1)
    ELSE Rat((IF sign = 1 THEN -1 ELSE 1) * m, TwoTo(-e))

\* math.Float64frombits for zero and the normal numbers: 1.fraction * 2^(E - 1023).
\* n is the number of significant fraction digits.
floatOf(bits, n) ==
    IF FromBinary(SubSeq(bits, 2, 12)) = 0 /\ n = 0 THEN <<0, 1>>
    ELSE scaled(bits[1], TwoTo(n) + FromBinary(SubSeq(bits, 13, 12 + n)),
                FromBinary(SubSeq(bits, 2, 12)) - 1023 - n)

Float64frombits(bits) == floatOf(bits, Significant(SubSeq(bits, 13, 64)))

\* ColumnFile.appendZeroValue
appendZeroBytes(cf) ==
    CASE cf.dataType = TypeBool -> [cf EXCEPT !.data = Append(@, 0)]
      [] cf.dataType \in {TypeInt64, TypeFloat64} ->
            [cf EXCEPT !.data = @ \o <<0, 0, 0, 0, 0, 0, 0, 0>>]
      [] cf.dataType = TypeString -> [cf EXCEPT !.data = @ \o <<0, 0, 0, 0>>]
      [] OTHER -> cf

\* The bytes AppendValue appends for a non-NULL value; <<-1>> stands for
\* the error of an unsupported data type.
encoded(dataType, v) ==
    CASE dataType = TypeBool -> IF AsBool(v)[1] THEN <<1>> ELSE <<0>>
      [] dataType = TypeInt64 -> LittleEndian(AsInt64(v)[1], 8)
      [] dataType = TypeFloat64 -> BytesOfBits(Float64bits(AsFloat64(v)[1]))
      [] dataType = TypeString ->
            LittleEndian(Len(AsString(v)[1]), 4) \o AsString(v)[1]
      [] OTHER -> <<-1>>

\* ColumnFile.AppendValue: [cf |-> the column afterwards, err]
AppendValueBytes(cf, v) ==
    IF v.isNull
    THEN [cf |-> [appendZeroBytes(appendNullBit(cf, TRUE)) EXCEPT !.rowCount = @ + 1],
          err |-> FALSE]
    ELSE IF encoded(cf.dataType, v) = <<-1>>
    THEN [cf |-> appendNullBit(cf, FALSE), err |-> TRUE]
    ELSE [cf |-> [appendNullBit(cf, FALSE) EXCEPT
                     !.data = @ \o encoded(cf.dataType, v), !.rowCount = @ + 1],
          err |-> FALSE]

\* The offset of the string at rowIndex: the loop of GetValue over the
\* length prefixes; -1 when the data ends before.
RECURSIVE stringOffset(_, _, _, _)
stringOffset(data, offset, i, rowIndex) ==
    IF offset + 4 > Len(data) THEN -1
    ELSE IF i = rowIndex THEN offset
    ELSE stringOffset(data, offset + 4 + Uint(SubSeq(data, offset + 1, offset + 4)),
                      i + 1, rowIndex)

stringAt(data, offset) ==
    IF offset = -1 THEN NewNullValue
    ELSE IF offset + 4 + Uint(SubSeq(data, offset + 1, offset + 4)) <= Len(data)
    THEN NewStringValue(SubSeq(data, offset + 5,
                               offset + 4 + Uint(SubSeq(data, offset + 1, offset + 4))))
    ELSE NewNullValue

\* ColumnFile.GetValue
GetValueBytes(cf, rowIndex) ==
    IF IsNull(cf, rowIndex) THEN NewNullValue
    ELSE CASE cf.dataType = TypeBool ->
                IF rowIndex < Len(cf.data)
                THEN NewBoolValue(cf.data[rowIndex + 1] # 0)
                ELSE NewNullValue
           [] cf.dataType = TypeInt64 ->
                IF rowIndex * 8 + 8 <= Len(cf.data)
                THEN NewInt64Value(Int64Of(SubSeq(cf.data, rowIndex * 8 + 1,
                                                  rowIndex * 8 + 8)))
                ELSE NewNullValue
           [] cf.dataType = TypeFloat64 ->
                IF rowIndex * 8 + 8 <= Len(cf.data)
                THEN NewFloat64Value(Float64frombits(BitsOfBytes(
                         SubSeq(cf.data, rowIndex * 8 + 1, rowIndex * 8 + 8))))
                ELSE NewNullValue
           [] cf.dataType = TypeString ->
                stringAt(cf.data, stringOffset(cf.data, 0, 0, rowIndex))
           [] OTHER -> NewNullValue

MagicNumber == <<84, 67, 79, 76>>
FormatVersion == 1

\* A Save that writes the row count as a 32-bit integer.
ColumnFileSave_ShortCount(cf) ==
    MagicNumber \o LittleEndian(FormatVersion, 2) \o LittleEndian(cf.dataType, 1)
        \o LittleEndian(cf.rowCount, 4)
        \o LittleEndian(Len(cf.nullMask), 8) \o cf.nullMask
        \o LittleEndian(Len(cf.data), 8) \o cf.data

\* ColumnFile.Save: the bytes of the file.
ColumnFileSave(cf) ==
    MagicNumber \o LittleEndian(FormatVersion, 2) \o LittleEndian(cf.dataType, 1)
        \o LittleEndian(cf.rowCount, 8)
        \o LittleEndian(Len(cf.nullMask), 8) \o cf.nullMask
        \o LittleEndian(Len(cf.data), 8) \o cf.data

\* LoadColumnFile after the null mask of the given size: the data size and
\* the data.  io.ReadFull fails when the file ends before.
loadData(bytes, cf, at) ==
    IF at + 8 > Len(bytes) THEN [err |-> "unexpected EOF"]
    ELSE IF at + 8 + Uint(SubSeq(bytes, at + 1, at + 8)) > Len(bytes)
    THEN [err |-> "unexpected EOF"]
    ELSE [err |-> "",
          cf |-> [cf EXCEPT !.data =
                     SubSeq(bytes, at + 9, at + 8 + Uint(SubSeq(bytes, at + 1, at + 8)))]]

loadNullMask(bytes, cf, size) ==
    IF 23 + size > Len(bytes) THEN [err |-> "unexpected EOF"]
    ELSE loadData(bytes, [cf EXCEPT !.nullMask = SubSeq(bytes, 24, 23 + size)],
                  23 + size)

\* LoadColumnFile: [err, cf]; cf is there when err is "".
LoadColumnFile(bytes) ==
    IF Len(bytes) < 4 THEN [err |-> "unexpected EOF"]
    ELSE IF SubSeq(bytes, 1, 4) # MagicNumber THEN [err |-> "invalid column file format"]
    ELSE IF Len(bytes) < 23 THEN [err |-> "unexpected EOF"]
    ELSE loadNullMask(bytes,
                      [dataType |-> bytes[7], nullMask |-> <<>>, data |-> <<>>,
                       rowCount |-> Uint(SubSeq(bytes, 8, 15))],
                      Uint(SubSeq(bytes, 16, 23)))

ColumnTypes == {TypeBool, TypeInt64, TypeFloat64, TypeString, TypeTimestamp}

ColumnValues ==
    {NewNullValue, NewBoolValue(TRUE), NewBoolValue(FALSE),
     NewInt64Value(1), NewInt64Value(-2), NewInt64Value(300),
     NewFloat64Value(<<-3, 2>>), NewFloat64Value(<<1, 4>>), NewFloat64Value(<<5, 1>>),
     NewStringValue(<<>>), NewStringValue(<<120>>), NewStringValue(<<97, 98>>)}

FreshDirectory ==
    /\ catalog = NoTables
    /\ catFile = NoTables
    /\ tables = NoCache
    /\ disk = NoDirs
    /\ last = Outcome(NoStatement, "none", "", NoResult)
    /\ hist = NoHist

executor == <<catalog, catFile, tables, disk, last, hist>>

InitColumn ==
    /\ FreshDirectory
    /\ column \in {NewColumnFile(t) : t \in ColumnTypes}
    /\ colFile = NoFile
    /\ loaded = NoLoad
    /\ NoCalls
    /\ compared = NoComparison
    /\ parsed = NoParse

AppendColumnValue(v) ==
    /\ column.rowCount < MaxColumnRows
    /\ column' = AppendValueBytes(column, v).cf
    /\ UNCHANGED <<colFile, loaded, executor, catalogUnit, pureUnit>>

SaveColumn ==
    /\ colFile' = ColumnFileSave(column)
    /\ loaded' = NoLoad
    /\ UNCHANGED <<column, executor, catalogUnit, pureUnit>>

LoadColumn ==
    /\ colFile # NoFile
    /\ loaded' = LoadColumnFile(colFile)
    /\ UNCHANGED <<column, colFile, executor, catalogUnit, pureUnit>>

NextColumn ==
    \/ \E v \in ColumnValues : AppendColumnValue(v)
    \/ SaveColumn
    \/ LoadColumn

SpecColumn == InitColumn /\ [][NextColumn]_vars

\* C17: the ColumnFile loaded from the file that Save wrote reports the
\* row count, the NULL positions and, by GetValue, the value at every index
\* of the in-memory column that was saved, for every supported column
\* type, for zero rows and for columns of NULLs only.
C17_SaveLoadRoundTrip ==
    (loaded # NoLoad /\ colFile = ColumnFileSave(column))
        => /\ loaded.err = ""
           /\ loaded.cf.rowCount = column.rowCount
           /\ loaded.cf.dataType = column.dataType
           /\ \A i \in 0..column.rowCount :
                 /\ IsNull(loaded.cf, i) = IsNull(column, i)
                 /\ GetValueBytes(loaded.cf, i) = GetValueBytes(column, i)

C17_Witness ==
    /\ loaded # NoLoad
    /\ colFile = ColumnFileSave(column)
    /\ column.dataType = TypeFloat64
    /\ column.rowCount = 2
    /\ GetValueBytes(loaded.cf, 0) = NewFloat64Value(<<-3, 2>>)
    /\ GetValueBytes(loaded.cf, 1) = NewNullValue

(***************************************************************************)
(* The Catalog under concurrent callers.  Every method takes mu first and  *)
(* releases it when it returns (defer); between the two it runs the steps  *)
(* below.  A write of catalog.json by Catalog.save succeeds or fails.      *)
(***************************************************************************)
CatalogNames == {"t", "u"}

Mutations == {"RegisterTable", "DropTable"}
Reads == {"TableExists", "GetTable", "ListTables"}

SchemaOf(name) == AddColumn(NewTableSchema(name), "a", TypeInt64, TRUE)

\* A Lock that does not wait for the holders of the lock.
CanLock_Always(m) == TRUE

\* sync.RWMutex.Lock returns when no writer and no reader holds the lock.
CanLock(m) == ~m.writer /\ m.readers = 0

\* sync.RWMutex.RLock returns when no writer holds the lock.
CanRLock(m) == ~m.writer

Lock(c, op, name) ==
    /\ pc[c].at = "idle"
    /\ CanLock(mu)
    /\ mu' = [mu EXCEPT !.writer = TRUE]
    /\ pc' = [pc EXCEPT ![c] = [Idle EXCEPT !.op = op, !.name = name,
                                            !.at = "locked", !.before = catalog]]
    /\ UNCHANGED <<catalog, catFile, saveFailed>>

RLock(c, op, name) ==
    /\ pc[c].at = "idle"
    /\ CanRLock(mu)
    /\ mu' = [mu EXCEPT !.readers = @ + 1]
    /\ pc' = [pc EXCEPT ![c] = [Idle EXCEPT !.op = op, !.name = name,
                                            !.at = "rlocked", !.before = catalog]]
    /\ UNCHANGED <<catalog, catFile, saveFailed>>

\* RegisterTable from the existence test to the assignment to c.Tables.
RegisterEntry(c) ==
    /\ pc[c].at = "locked"
    /\ pc[c].op = "RegisterTable"
    /\ IF pc[c].name \in DOMAIN catalog
       THEN /\ pc' = [pc EXCEPT ![c].at = "unlock", ![c].err = "table already exists"]
            /\ catalog' = catalog
       ELSE /\ pc' = [pc EXCEPT ![c].at = "save"]
            /\ catalog' = Put(catalog, pc[c].name, SchemaOf(pc[c].name))
    /\ UNCHANGED <<catFile, mu, saveFailed>>

\* DropTable from the existence test to the delete from c.Tables.
DropEntry(c) ==
    /\ pc[c].at = "locked"
    /\ pc[c].op = "DropTable"
    /\ IF pc[c].name \notin DOMAIN catalog
       THEN /\ pc' = [pc EXCEPT ![c].at = "unlock", ![c].err = "table does not exist"]
            /\ catalog' = catalog
       ELSE /\ pc' = [pc EXCEPT ![c].at = "save"]
            /\ catalog' = Remove(catalog, pc[c].name)
    /\ UNCHANGED <<catFile, mu, saveFailed>>

\* Catalog.save: catalog.json becomes the serialization of c.Tables.
SaveWritten(c) ==
    /\ pc[c].at = "save"
    /\ catFile' = catalog
    /\ pc' = [pc EXCEPT ![c].at = "unlock"]
    /\ UNCHANGED <<catalog, mu, saveFailed>>

\* Catalog.save returning an error: RegisterTable goes on to delete its
\* entry, DropTable returns.
SaveFails(c) ==
    /\ pc[c].at = "save"
    /\ saveFailed' = TRUE
    /\ pc' = [pc EXCEPT ![c].at = IF pc[c].op = "RegisterTable"
                                   THEN "rollback" ELSE "unlock",
                         ![c].failed = TRUE,
                         ![c].err = "failed to save catalog"]
    /\ UNCHANGED <<catalog, catFile, mu>>

\* delete(c.Tables, schema.Name) in RegisterTable's error branch.
RollbackEntry(c) ==
    /\ pc[c].at = "rollback"
    /\ catalog' = Remove(catalog, pc[c].name)
    /\ pc' = [pc EXCEPT ![c].at = "unlock"]
    /\ UNCHANGED <<catFile, mu, saveFailed>>

Unlock(c) ==
    /\ pc[c].at = "unlock"
    /\ mu' = [mu EXCEPT !.writer = FALSE]
    /\ pc' = [pc EXCEPT ![c] = Idle]
    /\ UNCHANGED <<catalog, catFile, saveFailed>>

\* The body of TableExists, GetTable and ListTables.
ReadEntry(c) ==
    /\ pc[c].at = "rlocked"
    /\ pc' = [pc EXCEPT ![c].at = "runlock",
                         ![c].result =
                            CASE pc[c].op = "TableExists" ->
                                    <<TableExists(catalog, pc[c].name)>>
                              [] pc[c].op = "GetTable" ->
                                    IF pc[c].name \in DOMAIN catalog
                                    THEN <<catalog[pc[c].name], TRUE>>
                                    ELSE <<NoTables, FALSE>>
                              [] OTHER -> <<DOMAIN catalog>>]
    /\ UNCHANGED <<catalog, catFile, mu, saveFailed>>

RUnlock(c) ==
    /\ pc[c].at = "runlock"
    /\ mu' = [mu EXCEPT !.readers = @ - 1]
    /\ pc' = [pc EXCEPT ![c] = Idle]
    /\ UNCHANGED <<catalog, catFile, saveFailed>>

NextCatalog ==
    /\ \E c \in Callers :
          \/ \E op \in Mutations, name \in CatalogNames : Lock(c, op, name)
          \/ \E op \in Reads, name \in CatalogNames : RLock(c, op, name)
          \/ RegisterEntry(c)
          \/ DropEntry(c)
          \/ SaveWritten(c)
          \/ SaveFails(c)
          \/ RollbackEntry(c)
          \/ Unlock(c)
          \/ ReadEntry(c)
          \/ RUnlock(c)
    /\ UNCHANGED <<tables, disk, last, hist, columnUnit, pureUnit>>

SpecCatalog == Init /\ [][NextCatalog]_vars

\* The caller is between Lock and Unlock of a mutation.
Mutating(c) == pc[c].at \in {"locked", "save", "rollback", "unlock"}

\* The caller is between RLock and RUnlock.
Reading(c) == pc[c].at \in {"rlocked", "runlock"}

\* C18: under any interleaving of Catalog calls a caller inside a mutation
\* excludes every other caller inside a mutation or a read, and whenever no
\* caller is inside a mutation and no catalog write has failed, catalog.json
\* lists exactly the tables of the in-memory map.
C18_MutationsExclusive ==
    /\ \A c \in Callers :
          Mutating(c) => \A d \in Callers \ {c} : ~Mutating(d) /\ ~Reading(d)
    /\ ((\A c \in Callers : ~Mutating(c)) /\ ~saveFailed)
          => DOMAIN catFile = DOMAIN catalog

C18_Witness ==
    /\ ~saveFailed
    /\ DOMAIN catFile = {"t", "u"}
    /\ DOMAIN catalog = {"u"}
    /\ \E c \in Callers :
          /\ pc[c].op = "DropTable"
          /\ pc[c].at = "save"
          /\ \A d \in Callers \ {c} : pc[d] = Idle

\* C19: when the write of catalog.json fails during RegisterTable or
\* DropTable, the in-memory map is, when the method returns, the map the
\* method found: the new entry is removed again, the dropped entry is back.
C19_FailedWriteRolledBack ==
    \A c \in Callers :
        (pc[c].at = "unlock" /\ pc[c].failed) => catalog = pc[c].before

(***************************************************************************)
(* Value.Compare on its own: three Values, then the comparisons of them.   *)
(***************************************************************************)
CompareValues ==
    {NewNullValue, NewBoolValue(FALSE), NewBoolValue(TRUE),
     NewInt64Value(1), NewInt64Value(2), NewFloat64Value(<<3, 2>>),
     NewStringValue(<<>>), NewStringValue(<<120>>)}

InitCompare ==
    /\ FreshDirectory
    /\ NoColumn
    /\ NoCalls
    /\ parsed = NoParse
    /\ compared \in [a : CompareValues, b : CompareValues, c : CompareValues,
                     results : {<<>>}]

\* results is <<a.Compare(b), b.Compare(a), b.Compare(c), a.Compare(c)>>.
CallCompare ==
    /\ compared.results = <<>>
    /\ compared' = [compared EXCEPT !.results =
                       <<Compare(compared.a, compared.b),
                         Compare(compared.b, compared.a),
                         Compare(compared.b, compared.c),
                         Compare(compared.a, compared.c)>>]
    /\ UNCHANGED <<executor, columnUnit, catalogUnit, parsed>>

NextCompare == CallCompare

SpecCompare == InitCompare /\ [][NextCompare]_vars

\* C20: Value.Compare is a total ordering over all Values: NULL equals NULL
\* and is less than every non-NULL value, Compare(a, b) = -Compare(b, a),
\* and Compare(a, b) <= 0 and Compare(b, c) <= 0 imply Compare(a, c) <= 0,
\* also when the type tags differ.
C20_CompareTotalOrder ==
    (compared # NoComparison /\ compared.results # <<>>)
        => /\ (compared.a.isNull /\ compared.b.isNull) => compared.results[1] = 0
           /\ (compared.a.isNull /\ ~compared.b.isNull) => compared.results[1] = -1
           /\ compared.results[1] = -compared.results[2]
           /\ (compared.results[1] <= 0 /\ compared.results[3] <= 0)
                 => compared.results[4] <= 0

(***************************************************************************)
(* INSERT of value expressions: the database after CREATE TABLE t          *)
(* (a INT64 NOT NULL, f FLOAT64, c BOOL), then INSERTs whose values are    *)
(* literals, identifiers, arithmetic and unary expressions, and SELECT *.  *)
(***************************************************************************)
InsertSchema ==
    <<ColumnDefinition("a", "INT64", FALSE), ColumnDefinition("f", "FLOAT64", TRUE),
      ColumnDefinition("c", "BOOL", TRUE)>>

ValueExpressions ==
    {Int1, NullLiteral, BoolLiteral(TRUE), Identifier("a"),
     BinaryExpression(Int1, "+", Int2),
     UnaryExpression("NOT", BoolLiteral(TRUE)),
     UnaryExpression("-", Identifier("a"))}

ExpressionInserts ==
    {InsertStatement("t", <<>>, <<x, y, z>>) :
        x \in ValueExpressions, y \in ValueExpressions, z \in ValueExpressions}
    \cup {InsertStatement("t", <<"f">>, <<x>>) : x \in ValueExpressions}
    \cup {InsertStatement("t", <<"c", "a">>, <<x, y>>) :
            x \in ValueExpressions, y \in ValueExpressions}

InitInsert == InitLoaded(InsertSchema, <<>>)

NextInsert ==
    \/ \E stmt \in ExpressionInserts : ExecuteInsert(stmt)
    \/ ExecuteSelect(SelectAll("t"))

SpecInsert == InitInsert /\ [][NextInsert]_vars

LiteralKinds ==
    {"IntegerLiteral", "FloatLiteral", "StringLiteral", "BoolLiteral", "NullLiteral"}

\* The value the cached Table holds at row index idx of its j-th column.
StoredAt(cache, t, j, idx) ==
    GetValue(cache[t].Columns[cache[t].Schema.Columns[j].Name], idx)

\* C21: in INSERT a value expression that is not a literal (an identifier,
\* a binary arithmetic expression, a unary expression) evaluates to NULL,
\* so the inserted row holds NULL in that column.
C21_NonLiteralStoresNull ==
    [][(/\ last'.stmt.kind = "Insert"
        /\ last'.outcome = "ok"
        /\ Len(last'.stmt.Columns) = 0
        /\ last'.stmt.TableName \in DOMAIN tables)
       => \A j \in 1..Len(last'.stmt.Values) :
             last'.stmt.Values[j].kind \notin LiteralKinds
                => StoredAt(tables', last'.stmt.TableName, j,
                            tables[last'.stmt.TableName].Columns[
                                tables[last'.stmt.TableName].Schema.Columns[j].Name
                            ].rowCount) = NewNullValue]_vars

\* C29: a column declared NOT NULL never holds NULL: an INSERT that would
\* store NULL in it, by an explicit NULL or by leaving the column out of
\* the column list, fails.
C29_NotNullHoldsNoNull ==
    \A t \in DOMAIN tables :
        \A j \in 1..Len(tables[t].Schema.Columns) :
            ~tables[t].Schema.Columns[j].Nullable
                => \A i \in 0..(tables[t].Columns[tables[t].Schema.Columns[j].Name].rowCount - 1) :
                      ~StoredAt(tables, t, j, i).isNull

(***************************************************************************)
(* Parser.parseExpression.  The parser state is the token sequence and the *)
(* position of curToken; peekToken is the token after it and EOF follows   *)
(* the last token.  A parse function returns [expr, pos]: expr is <<e>>,   *)
(* or <<>> for nil, and pos is the position of curToken when it returns.   *)
(***************************************************************************)
MaxOperands == 3

Token(type, literal) == [type |-> type, literal |-> literal]

TokenAt(toks, pos) == IF pos \in 1..Len(toks) THEN toks[pos] ELSE Token("EOF", "")

LOWEST == 0
OR_PREC == 1
AND_PREC == 2
NOT_PREC == 3
EQUALS == 4
LESSGREATER == 5
SUM == 6
PRODUCT == 7
PREFIX == 8
CALL == 9

\* precedences[t], LOWEST for a token type the map does not hold
precedences(type) ==
    CASE type = "OR" -> OR_PREC
      [] type = "AND" -> AND_PREC
      [] type \in {"EQ", "NEQ"} -> EQUALS
      [] type \in {"LT", "GT", "LTE", "GTE"} -> LESSGREATER
      [] type \in {"PLUS", "MINUS"} -> SUM
      [] type \in {"ASTERISK", "SLASH"} -> PRODUCT
      [] type = "LPAREN" -> CALL
      [] OTHER -> LOWEST

isInfixOperator(type) ==
    type \in {"EQ", "NEQ", "LT", "GT", "LTE", "GTE", "AND", "OR",
              "PLUS", "MINUS", "ASTERISK", "SLASH"}

\* A nil Expression inside a node.
NilExpression == MkExpr("nil", "", FALSE, 0, <<0, 1>>, <<>>, <<>>)

OrNil(expr) == IF expr = <<>> THEN NilExpression ELSE expr[1]

RECURSIVE parseExpression(_, _, _)
RECURSIVE parsePrefixExpression(_, _)
RECURSIVE infixLoop(_, _, _, _)

\* UnaryExpression{Operator, Operand: p.parseExpression(...)}
unaryOf(op, operand) ==
    [expr |-> <<UnaryExpression(op, OrNil(operand.expr))>>, pos |-> operand.pos]

\* The TOKEN_LPAREN case after the inner expression: expectPeek(TOKEN_RPAREN).
closeParen(toks, inner) ==
    IF TokenAt(toks, inner.pos + 1).type = "RPAREN"
    THEN [expr |-> inner.expr, pos |-> inner.pos + 1]
    ELSE [expr |-> <<>>, pos |-> inner.pos]

parsePrefixExpression(toks, pos) ==
    CASE TokenAt(toks, pos).type = "INT" ->
            [expr |-> <<IntegerLiteral(TokenAt(toks, pos).literal)>>, pos |-> pos]
      [] TokenAt(toks, pos).type = "TRUE" -> [expr |-> <<BoolLiteral(TRUE)>>, pos |-> pos]
      [] TokenAt(toks, pos).type = "FALSE" -> [expr |-> <<BoolLiteral(FALSE)>>, pos |-> pos]
      [] TokenAt(toks, pos).type = "NULL" -> [expr |-> <<NullLiteral>>, pos |-> pos]
      [] TokenAt(toks, pos).type = "NOT" ->
            unaryOf("NOT", parseExpression(toks, pos + 1, NOT_PREC))
      [] TokenAt(toks, pos).type = "MINUS" ->
            unaryOf("-", parseExpression(toks, pos + 1, PREFIX))
      [] TokenAt(toks, pos).type = "LPAREN" ->
            closeParen(toks, parseExpression(toks, pos + 1, LOWEST))
      [] TokenAt(toks, pos).type = "IDENT" ->
            [expr |-> <<Identifier(TokenAt(toks, pos).literal)>>, pos |-> pos]
      [] OTHER -> [expr |-> <<>>, pos |-> pos]

\* parseInfixExpression: curToken is the operator; AND and OR are spelled in
\* upper case, every other operator as written.
infixOperator(tok) ==
    CASE tok.type = "AND" -> "AND" [] tok.type = "OR" -> "OR" [] OTHER -> tok.literal

\* parseInfixExpression once the right operand is parsed, and the loop again.
afterInfix(toks, left, operator, right, precedence) ==
    infixLoop(toks, BinaryExpression(left, operator, OrNil(right.expr)),
              right.pos, precedence)

\* The loop of parseExpression going on at an operator of the same
\* precedence: operators of equal precedence then associate to the right.
infixLoop_RightAssoc(toks, left, pos, precedence) ==
    IF /\ TokenAt(toks, pos + 1).type # "SEMICOLON"
       /\ precedence <= precedences(TokenAt(toks, pos + 1).type)
       /\ isInfixOperator(TokenAt(toks, pos + 1).type)
    THEN afterInfix(toks, left, infixOperator(TokenAt(toks, pos + 1)),
                    parseExpression(toks, pos + 2,
                                    precedences(TokenAt(toks, pos + 1).type)),
                    precedence)
    ELSE [expr |-> <<left>>, pos |-> pos]

\* The loop of parseExpression after the prefix expression left.
infixLoop(toks, left, pos, precedence) ==
    IF /\ TokenAt(toks, pos + 1).type # "SEMICOLON"
       /\ precedence < precedences(TokenAt(toks, pos + 1).type)
       /\ isInfixOperator(TokenAt(toks, pos + 1).type)
    THEN afterInfix(toks, left, infixOperator(TokenAt(toks, pos + 1)),
                    parseExpression(toks, pos + 2,
                                    precedences(TokenAt(toks, pos + 1).type)),
                    precedence)
    ELSE [expr |-> <<left>>, pos |-> pos]

afterPrefix(toks, left, precedence) ==
    IF left.expr = <<>> THEN left
    ELSE infixLoop(toks, left.expr[1], left.pos, precedence)

parseExpression(toks, pos, precedence) ==
    afterPrefix(toks, parsePrefixExpression(toks, pos), precedence)

\* The token sequences parsed: up to MaxOperands identifiers, each bare or
\* after NOT or after a unary minus, with a binary operator between two.
OperatorTokens ==
    {Token("OR", "OR"), Token("AND", "and"), Token("EQ", "="),
     Token("LT", "<"), Token("PLUS", "+"), Token("MINUS", "-"),
     Token("ASTERISK", "*"), Token("SLASH", "/")}

PrefixTokens == {<<>>, <<Token("NOT", "NOT")>>, <<Token("MINUS", "-")>>}

OperandNames == <<"a", "b", "c", "d", "e">>

RECURSIVE TokenSequences(_)
TokenSequences(n) ==
    IF n = 1
    THEN {pre \o <<Token("IDENT", OperandNames[1])>> : pre \in PrefixTokens}
    ELSE {head \o <<op>> \o pre \o <<Token("IDENT", OperandNames[n])>> :
            head \in TokenSequences(n - 1), op \in OperatorTokens, pre \in PrefixTokens}

InitParse ==
    /\ FreshDirectory
    /\ NoColumn
    /\ NoCalls
    /\ compared = NoComparison
    /\ parsed \in [tokens : UNION {TokenSequences(n) : n \in 1..MaxOperands},
                   result : {<<>>}]

\* p.parseExpression(LOWEST) with curToken on the first token.
ParseExpression ==
    /\ parsed.result = <<>>
    /\ parsed' = [parsed EXCEPT !.result = <<parseExpression(parsed.tokens, 1, LOWEST)>>]
    /\ UNCHANGED <<executor, columnUnit, catalogUnit, compared>>

NextParse == ParseExpression

SpecParse == InitParse /\ [][NextParse]_vars

\* The precedence of the operator of a BinaryExpression.
PrecedenceOf(operator) ==
    CASE operator = "OR" -> OR_PREC
      [] operator = "AND" -> AND_PREC
      [] operator \in {"=", "<>", "!="} -> EQUALS
      [] operator \in {"<", ">", "<=", ">="} -> LESSGREATER
      [] operator \in {"+", "-"} -> SUM
      [] OTHER -> PRODUCT

\* The operators and operands of an expression from left to right.
RECURSIVE Yield(_)
Yield(e) ==
    CASE e.kind = "BinaryExpression" ->
            Yield(e.args[1]) \o <<e.name>> \o Yield(e.args[2])
      [] e.kind = "UnaryExpression" -> <<e.name>> \o Yield(e.args[1])
      [] OTHER -> <<e.name>>

\* The precedences of the operators an operand ends with: those that a
\* binary operator after the operand could belong to instead.
RECURSIVE RightSpine(_)
RightSpine(e) ==
    CASE e.kind = "BinaryExpression" -> {PrecedenceOf(e.name)} \cup RightSpine(e.args[2])
      [] e.kind = "UnaryExpression" ->
            {IF e.name = "NOT" THEN NOT_PREC ELSE PREFIX} \cup RightSpine(e.args[1])
      [] OTHER -> {}

\* The precedences of the binary operators an operand begins with.
RECURSIVE LeftSpine(_)
LeftSpine(e) ==
    IF e.kind = "BinaryExpression"
    THEN {PrecedenceOf(e.name)} \cup LeftSpine(e.args[1])
    ELSE {}

\* Every operator of the expression binds by precedence, and binary
\* operators of equal precedence associate to the left.
RECURSIVE BoundByPrecedence(_)
BoundByPrecedence(e) ==
    CASE e.kind = "BinaryExpression" ->
            /\ \A q \in RightSpine(e.args[1]) : q >= PrecedenceOf(e.name)
            /\ \A q \in LeftSpine(e.args[2]) : q > PrecedenceOf(e.name)
            /\ BoundByPrecedence(e.args[1])
            /\ BoundByPrecedence(e.args[2])
      [] e.kind = "UnaryExpression" ->
            /\ \A q \in LeftSpine(e.args[1]) :
                  q > (IF e.name = "NOT" THEN NOT_PREC ELSE PREFIX)
            /\ BoundByPrecedence(e.args[1])
      [] OTHER -> e.kind = "Identifier"

\* The spelling of a token in the expression.
Spelling(tok) == IF tok.type \in {"AND", "OR", "NOT"} THEN tok.type ELSE tok.literal

Ident(n) == Identifier(OperandNames[n])

\* C22: the expression parser binds operators by the precedence order
\* OR < AND < NOT < equality < relational < additive < multiplicative <
\* prefix, binary operators of equal precedence associate to the left:
\* a OR b AND c is a OR (b AND c), NOT a = b is NOT (a = b), a + b * c is
\* a + (b * c), a - b - c is (a - b) - c.
C22_PrecedenceAndAssociativity ==
    (parsed # NoParse /\ parsed.result # <<>>)
        => /\ parsed.result[1].expr # <<>>
           /\ parsed.result[1].pos = Len(parsed.tokens)
           /\ Yield(parsed.result[1].expr[1])
                 = [i \in 1..Len(parsed.tokens) |-> Spelling(parsed.tokens[i])]
           /\ BoundByPrecedence(parsed.result[1].expr[1])
           /\ Yield(parsed.result[1].expr[1]) = <<"a", "OR", "b", "AND", "c">>
                 => parsed.result[1].expr[1]
                      = BinaryExpression(Ident(1), "OR",
                                         BinaryExpression(Ident(2), "AND", Ident(3)))
           /\ Yield(parsed.result[1].expr[1]) = <<"NOT", "a", "=", "b">>
                 => parsed.result[1].expr[1]
                      = UnaryExpression("NOT", BinaryExpression(Ident(1), "=", Ident(2)))
           /\ Yield(parsed.result[1].expr[1]) = <<"a", "+", "b", "*", "c">>
                 => parsed.result[1].expr[1]
                      = BinaryExpression(Ident(1), "+",
                                         BinaryExpression(Ident(2), "*", Ident(3)))
           /\ Yield(parsed.result[1].expr[1]) = <<"a", "-", "b", "-", "c">>
                 => parsed.result[1].expr[1]
                      = BinaryExpression(BinaryExpression(Ident(1), "-", Ident(2)),
                                         "-", Ident(3))

C22_Witness ==
    /\ parsed # NoParse
    /\ parsed.result # <<>>
    /\ parsed.result[1].expr
         = <<BinaryExpression(BinaryExpression(Ident(1), "-", Ident(2)), "-", Ident(3))>>

(***************************************************************************)
(* INSERT and the columns of a table.                                      *)
(***************************************************************************)
\* C23: after any sequence of CREATE, INSERT (successful or failed) and
\* SELECT, all columns of a table hold the same number of rows.
C23_ColumnsHoldSameRowCount ==
    \A t \in DOMAIN tables :
        \A m, n \in DOMAIN tables[t].Columns :
            tables[t].Columns[m].rowCount = tables[t].Columns[n].rowCount

\* The INSERT gives some column a non-NULL value of another type than the
\* column's declared type.
SuppliesOtherType(schema, stmt) ==
    IF Len(stmt.Columns) > 0
    THEN \E i \in 1..Len(stmt.Columns) :
            /\ i <= Len(stmt.Values)
            /\ GetColumnIndex(schema, stmt.Columns[i]) # -1
            /\ ~LiteralValue(stmt.Values[i]).isNull
            /\ LiteralValue(stmt.Values[i]).type
                 # schema.Columns[GetColumnIndex(schema, stmt.Columns[i]) + 1].Type
    ELSE /\ Len(stmt.Values) = Len(schema.Columns)
         /\ \E j \in 1..Len(stmt.Values) :
               /\ ~LiteralValue(stmt.Values[j]).isNull
               /\ LiteralValue(stmt.Values[j]).type # schema.Columns[j].Type

\* C24: an INSERT that supplies a non-NULL value whose type differs from
\* the target column's declared type returns an execution failure; it
\* never succeeds while storing a value different from the one supplied.
C24_OtherTypeInsertFails ==
    [][(/\ last'.stmt.kind = "Insert"
        /\ last'.stmt.TableName \in DOMAIN catalog
        /\ SuppliesOtherType(catalog[last'.stmt.TableName], last'.stmt))
       => last'.outcome = "error"]_vars

\* C25: every INSERT statement the parser accepts makes Execute return a
\* result or an execution failure, also when the explicit column list and
\* the value list have different lengths; the call never aborts and never
\* silently drops supplied values.
C25_InsertReturnsAndKeepsValues ==
    last.stmt.kind = "Insert"
        => /\ last.outcome \in {"ok", "error"}
           /\ (last.outcome = "ok" /\ Len(last.stmt.Columns) > 0)
                 => Len(last.stmt.Values) <= Len(last.stmt.Columns)

\* The numbers of rows SELECT * FROM t can return.
SelectAllRowCounts(cat, cache, dirs, t) ==
    {IF ans.outcome = "ok" THEN Len(ans.result.Rows) ELSE -1 :
        ans \in SelectAllAnswers(cat, cache, dirs, t)}

\* C28: for every schema that CREATE TABLE accepts, including one that
\* repeats a column name, each successful INSERT increases the number of
\* rows returned by SELECT * by exactly one.
C28_InsertAddsOneRow ==
    [][(last'.stmt.kind = "Insert" /\ last'.outcome = "ok")
       => \A before \in SelectAllRowCounts(catalog, tables, disk, last'.stmt.TableName),
             after \in SelectAllRowCounts(catalog', tables', disk', last'.stmt.TableName) :
               after = before + 1]_vars

(***************************************************************************)
(* The lexer and parser on the number after LIMIT.  Texts and literals     *)
(* are sequences of bytes.                                                 *)
(***************************************************************************)
isDigit(ch) == ch \in 48..57

\* The position after the digits that start at pos.
RECURSIVE digitsEnd(_, _)
digitsEnd(input, pos) ==
    IF pos <= Len(input) /\ isDigit(input[pos]) THEN digitsEnd(input, pos + 1) ELSE pos

\* Lexer.readNumber with l.position = position.
readNumber(input, position) ==
    IF /\ digitsEnd(input, position) < Len(input)
       /\ input[digitsEnd(input, position)] = 46
       /\ isDigit(input[digitsEnd(input, position) + 1])
    THEN [literal |-> SubSeq(input, position,
                             digitsEnd(input, digitsEnd(input, position) + 1) - 1),
          isFloat |-> TRUE]
    ELSE [literal |-> SubSeq(input, position, digitsEnd(input, position) - 1),
          isFloat |-> FALSE]

numberToken(sign, number) ==
    Token(IF number.isFloat THEN "FLOAT" ELSE "INT", sign \o number.literal)

\* Lexer.NextToken on an input that begins with '-' or with a digit.
NextToken(input) ==
    CASE input # <<>> /\ input[1] = 45 ->
            IF Len(input) > 1 /\ isDigit(input[2])
            THEN numberToken(<<45>>, readNumber(input, 2))
            ELSE Token("ILLEGAL", <<45>>)
      [] input # <<>> /\ isDigit(input[1]) -> numberToken(<<>>, readNumber(input, 1))
      [] input = <<>> -> Token("EOF", <<>>)
      [] OTHER -> Token("ILLEGAL", <<input[1]>>)

\* The number a run of decimal digits spells.
RECURSIVE DigitsValue(_)
DigitsValue(ds) ==
    IF ds = <<>> THEN 0 ELSE 10 * DigitsValue(SubSeq(ds, 1, Len(ds) - 1)) + (ds[Len(ds)] - 48)

\* strconv.ParseInt(literal, 10, 64) on an optional sign and digits.
ParseInt(literal) ==
    IF literal # <<>> /\ literal[1] = 45 THEN -DigitsValue(Tail(literal))
    ELSE DigitsValue(literal)

\* stmt.Limit after parseSelectStatement has read LIMIT and the token tok.
parseLimit(tok) == IF tok.type = "INT" THEN <<ParseInt(tok.literal)>> ELSE <<>>

(***************************************************************************)
(* WHERE over columns of three types and LIMIT from its text: the database *)
(* after CREATE TABLE t (a INT64, f FLOAT64, c BOOL) and up to             *)
(* MaxWhereRows INSERTs.                                                   *)
(***************************************************************************)
MaxWhereRows == 2

WhereSchema ==
    <<ColumnDefinition("a", "INT64", TRUE), ColumnDefinition("f", "FLOAT64", TRUE),
      ColumnDefinition("c", "BOOL", TRUE)>>

Float1 == FloatLiteral(<<1, 1>>)
FloatHalf3 == FloatLiteral(<<3, 2>>)
Float2 == FloatLiteral(<<2, 1>>)

WhereRowValues ==
    { <<Int1, Float1, BoolLiteral(TRUE)>>, <<Int2, FloatHalf3, BoolLiteral(FALSE)>>,
      <<Int1, Float2, NullLiteral>> }

WhereRowLists == UNION {[1..n -> WhereRowValues] : n \in 0..MaxWhereRows}

Where(expr) == SelectStatement("t", <<Wildcard>>, FALSE, <<expr>>, <<>>, <<>>, <<>>)

\* WHERE a op float literal, WHERE f op integer literal, either way round.
MixedQueries ==
    {Where(BinaryExpression(lr[1], op, lr[2])) :
        op \in {"=", "<", ">"},
        lr \in { <<Identifier("a"), Float1>>, <<Identifier("a"), FloatHalf3>>,
                 <<Identifier("f"), Int1>>, <<Identifier("f"), Int2>>,
                 <<Int2, Identifier("f")>>, <<FloatHalf3, Identifier("a")>> }}

\* WHERE c and WHERE NOT c.
BoolQueries == {Where(Identifier("c")), Where(UnaryExpression("NOT", Identifier("c")))}

\* The texts after LIMIT: -1, 0, 1, 2.
LimitTexts == { <<45, 49>>, <<48>>, <<49>>, <<50>> }

LimitQueries ==
    {SelectStatement("t", cols, FALSE, <<>>, <<>>, parseLimit(NextToken(text)), offset) :
        cols \in { <<Wildcard>>, <<SelectColumn(Identifier("a"), "")>> },
        text \in LimitTexts,
        offset \in { <<>>, <<1>> }}

InitWhere == \E rows \in WhereRowLists : InitLoaded(WhereSchema, rows)

NextWhere ==
    \/ \E stmt \in MixedQueries : ExecuteSelect(stmt)
    \/ \E stmt \in BoolQueries : ExecuteSelect(stmt)
    \/ \E stmt \in LimitQueries : ExecuteSelect(stmt)

SpecWhere == InitWhere /\ [][NextWhere]_vars

\* The value of a WHERE operand on a stored row.
OperandValue(e, row) ==
    IF e.kind = "Identifier"
    THEN row[GetColumnIndex(catalog["t"], e.name) + 1]
    ELSE LiteralValue(e)

\* The numeric order of two non-NULL numbers.
NumericHolds(x, op, y) ==
    CASE op = "=" -> ~RatLess(ToNumeric(x)[1], ToNumeric(y)[1])
                     /\ ~RatLess(ToNumeric(y)[1], ToNumeric(x)[1])
      [] op = "<" -> RatLess(ToNumeric(x)[1], ToNumeric(y)[1])
      [] op = ">" -> RatLess(ToNumeric(y)[1], ToNumeric(x)[1])

\* The last statement compared an Int64 operand and a Float64 operand.
MixedComparison ==
    /\ last.stmt.kind = "Select"
    /\ last.stmt.Where # <<>>
    /\ last.stmt.Where[1].kind = "BinaryExpression"
    /\ {LiteralValue(last.stmt.Where[1].args[i]).type : i \in 1..2}
         \in {{TypeNull, TypeInt64}, {TypeNull, TypeFloat64}}
    /\ \E i \in 1..2 :
          /\ last.stmt.Where[1].args[i].kind = "Identifier"
          /\ GetColumnIndex(catalog["t"], last.stmt.Where[1].args[i].name) # -1
          /\ {catalog["t"].Columns[GetColumnIndex(catalog["t"],
                                      last.stmt.Where[1].args[i].name) + 1].Type,
              LiteralValue(last.stmt.Where[1].args[3 - i]).type}
               = {TypeInt64, TypeFloat64}

\* C26: a WHERE comparison between a non-NULL Int64 operand and a non-NULL
\* Float64 operand follows the numeric order of the two numbers: = holds
\* only when they are numerically equal, < and > exactly when the numbers
\* are so ordered.
C26_MixedComparisonIsNumeric ==
    (MixedComparison /\ last.outcome = "ok")
        => last.result.Rows
             = SelectSeq(hist["t"].rows,
                         LAMBDA row :
                            NumericHolds(OperandValue(last.stmt.Where[1].args[1], row),
                                         last.stmt.Where[1].name,
                                         OperandValue(last.stmt.Where[1].args[2], row)))

\* C27: a WHERE clause that is a bare BOOL column identifier selects
\* exactly the rows whose value in that column is TRUE, and WHERE NOT of
\* that identifier selects exactly the rows whose value is FALSE.
C27_BoolColumnCondition ==
    (last.stmt.kind = "Select" /\ last.outcome = "ok" /\ last.stmt.Where # <<>>)
        => /\ last.stmt.Where[1] = Identifier("c")
                => last.result.Rows
                     = SelectSeq(hist["t"].rows,
                                 LAMBDA row : OperandValue(Identifier("c"), row)
                                                = NewBoolValue(TRUE))
           /\ last.stmt.Where[1] = UnaryExpression("NOT", Identifier("c"))
                => last.result.Rows
                     = SelectSeq(hist["t"].rows,
                                 LAMBDA row : OperandValue(Identifier("c"), row)
                                                = NewBoolValue(FALSE))

\* The rows of SELECT * that OFFSET leaves.
AfterOffset(rows, offset) ==
    IF offset = <<>> \/ offset[1] <= 0 THEN rows
    ELSE SubSeq(rows, offset[1] + 1, Len(rows))

\* C30: for every integer LIMIT value the lexer and parser accept,
\* including a negative one such as LIMIT -1, a projection SELECT returns
\* either a result whose rows are a prefix of the rows left after OFFSET or
\* an execution failure; the call never aborts.
C30_LimitReturnsPrefix ==
    (last.stmt.kind = "Select" /\ last.stmt.Limit # <<>>)
        => /\ last.outcome \in {"ok", "error"}
           /\ (last.outcome = "ok" /\ last.stmt.SelectColumns = <<Wildcard>>)
                 => \E n \in 0..Len(hist["t"].rows) :
                       last.result.Rows
                         = SubSeq(AfterOffset(hist["t"].rows, last.stmt.Offset), 1, n)

====
